---------------------------- MODULE Spec2Model ----------------------------
(***************************************************************************)
(* Model of the STM32 USBv1 low level driver (STM32/USBv1/usb_lld.c):      *)
(* the packet memory allocator, the packet transfer routines, the endpoint *)
(* register operations and the interrupt handler, together with the        *)
(* peripheral (endpoint registers, descriptor table, packet memory) and    *)
(* the upper layer that calls the driver.                                  *)
(***************************************************************************)
EXTENDS Integers, Sequences, FiniteSets, TLC

VARIABLES
  pmnext,     \* usbp->pmnext, the allocator cursor
  fatal,      \* an osalDbgAssert has failed (the system is halted)
  epc,        \* usbp->epc[], the endpoint configurations (NULL when unset)
  EPR,        \* STM32_USB->EPR[], the endpoint registers
  btable,     \* the descriptor table entries, USB_GET_DESCRIPTOR(ep)
  pma,        \* the packet memory, an array of halfwords
  in_state,   \* *epcp->in_state per endpoint
  out_state,  \* *epcp->out_state per endpoint
  transmitting, \* usbp->transmitting, the endpoints with an IN transaction
  receiving,  \* usbp->receiving, the endpoints with an OUT transaction
  usbcfg,     \* usbp->config and the build options
  txmem,      \* the linear buffer an IN transaction sends from
  rxmem,      \* the linear buffer an OUT transaction receives into
  oqueue,     \* the output queue an IN transaction sends from
  iqueue,     \* the input queue an OUT transaction receives into
  ISTR,       \* STM32_USB->ISTR, the latched bus level conditions
  CNTR,       \* STM32_USB->CNTR, the control register bits that are set
  DADDR,      \* STM32_USB->DADDR
  FNR_RXDP,   \* the RXDP line state bit of STM32_USB->FNR
  isr,        \* the interrupt handler: its position and its local istr
  cb,         \* history: the upper layer callbacks invoked so far
  trace,      \* history: per endpoint, what the transaction in flight did
  last,       \* history: the last operation and what it saw
  pm_hist,    \* history: the allocations made since the last allocator reset
  xf          \* the transfer routines' harness (SpecXfer)

drvVars == <<pmnext, fatal, epc, EPR, btable>>
memVars == <<pma, txmem, rxmem, oqueue, iqueue>>
xferVars == <<in_state, out_state, transmitting, receiving>>
busVars == <<ISTR, CNTR, DADDR, FNR_RXDP>>
histVars == <<cb, trace, last, pm_hist>>
vars == <<pmnext, fatal, epc, EPR, btable, pma, in_state, out_state,
          transmitting, receiving, usbcfg, txmem, rxmem, oqueue, iqueue, ISTR,
          CNTR, DADDR, FNR_RXDP, isr, cb, trace, last, pm_hist, xf>>

-----------------------------------------------------------------------------
(* Bounds of the model.                                                    *)

\* Endpoints 0..MaxEp are modelled.
MaxEp == 1
\* Largest maximum packet size of an endpoint other than endpoint 0.
MaxPkt == 2
\* Largest size of a transaction.
MaxXfer == 5
\* Number of allocations followed in the allocator's specification.
MaxAllocs == 4
\* Size of the buffer of a queue.
QSize == 3
\* Largest byte count handed to a transfer routine in SpecXfer.
MaxN == 3
\* Number of transactions followed in each direction of an endpoint after it
\* is configured.
MaxTxns == 1

Eps == 0 .. MaxEp

-----------------------------------------------------------------------------
(* Machine arithmetic.                                                     *)

RECURSIVE BitAnd(_, _)
BitAnd(a, b) ==
  IF a = 0 \/ b = 0 THEN 0
  ELSE (a % 2) * (b % 2) + 2 * BitAnd(a \div 2, b \div 2)

RECURSIVE BitOr(_, _)
BitOr(a, b) ==
  IF a = 0 THEN b
  ELSE IF b = 0 THEN a
  ELSE (IF a % 2 = 1 \/ b % 2 = 1 THEN 1 ELSE 0) + 2 * BitOr(a \div 2, b \div 2)

RECURSIVE BitXor(_, _)
BitXor(a, b) ==
  IF a = 0 THEN b
  ELSE IF b = 0 THEN a
  ELSE ((a + b) % 2) + 2 * BitXor(a \div 2, b \div 2)

\* ~x on a 16 bit register value.
Not16(a) == 65535 - a

U8(x) == x % 256
U16(x) == x % 65536

\* A size_t or uint32_t value is held as the integer congruent to it modulo
\* 2^32 that lies in -2^31 .. 2^31 - 1, so sums and differences of the small
\* values met here are the machine's, and a value that wrapped below zero is
\* negative. The comparisons are the machine's unsigned ones.
U32Gt(a, b) == IF (a < 0) = (b < 0) THEN a > b ELSE a < 0
U32Lt(a, b) == U32Gt(b, a)


-----------------------------------------------------------------------------
(* The endpoint register EPnR and the macros that write it (stm32_usb.h).  *)

EPR_EA_MASK == 15
EPR_STAT_TX_MASK == 48
EPR_STAT_TX_DIS == 0
EPR_STAT_TX_STALL == 16
EPR_STAT_TX_NAK == 32
EPR_STAT_TX_VALID == 48
EPR_DTOG_TX == 64
EPR_CTR_TX == 128
EPR_EP_KIND == 256
EPR_EP_TYPE_MASK == 1536
EPR_EP_TYPE_BULK == 0
EPR_EP_TYPE_CONTROL == 512
EPR_EP_TYPE_ISO == 1024
EPR_EP_TYPE_INTERRUPT == 1536
EPR_SETUP == 2048
EPR_STAT_RX_MASK == 12288
EPR_STAT_RX_DIS == 0
EPR_STAT_RX_STALL == 4096
EPR_STAT_RX_NAK == 8192
EPR_STAT_RX_VALID == 12288
EPR_DTOG_RX == 16384
EPR_CTR_RX == 32768
EPR_CTR_MASK == EPR_CTR_TX + EPR_CTR_RX
EPR_TOGGLE_MASK ==
  EPR_STAT_TX_MASK + EPR_DTOG_TX + EPR_STAT_RX_MASK + EPR_DTOG_RX + EPR_SETUP
RXCOUNT_COUNT_MASK == 1023

\* What the register holds after the value w is written to it while it held
\* old: the status and data toggle bits flip where w has a one, a
\* completion flag is cleared where w has a zero and cannot be set, SETUP is
\* read only, the type, kind and address bits take the written value.
EprWrite(old, w) ==
  LET toggles == EPR_STAT_TX_MASK + EPR_DTOG_TX + EPR_STAT_RX_MASK + EPR_DTOG_RX
      plain == EPR_EP_TYPE_MASK + EPR_EP_KIND + EPR_EA_MASK
  IN BitXor(BitAnd(old, toggles), BitAnd(w, toggles))
       + BitAnd(BitAnd(old, EPR_CTR_MASK), w)
       + BitAnd(old, EPR_SETUP)
       + BitAnd(w, plain)

\* EPR_SET(ep, epr)
EPR_SET(old, epr) == EprWrite(old, BitAnd(epr, Not16(EPR_TOGGLE_MASK)))

\* EPR_TOGGLE(ep, epr)
EPR_TOGGLE(old, epr) == EprWrite(old, BitXor(old, BitAnd(epr, EPR_TOGGLE_MASK)))

\* EPR_SET_STAT_RX(ep, epr)
EPR_SET_STAT_RX(old, epr) ==
  EprWrite(old,
    BitOr(BitXor(BitAnd(old, Not16(BitAnd(EPR_TOGGLE_MASK, Not16(EPR_STAT_RX_MASK)))),
                 epr),
          EPR_CTR_MASK))

\* EPR_SET_STAT_TX(ep, epr)
EPR_SET_STAT_TX(old, epr) ==
  EprWrite(old,
    BitOr(BitXor(BitAnd(old, Not16(BitAnd(EPR_TOGGLE_MASK, Not16(EPR_STAT_TX_MASK)))),
                 epr),
          EPR_CTR_MASK))

\* EPR_CLEAR_CTR_RX(ep)
EPR_CLEAR_CTR_RX(old) ==
  EprWrite(old,
    BitOr(BitAnd(BitAnd(old, Not16(EPR_CTR_RX)), Not16(EPR_TOGGLE_MASK)), EPR_CTR_TX))

\* EPR_CLEAR_CTR_TX(ep)
EPR_CLEAR_CTR_TX(old) ==
  EprWrite(old,
    BitOr(BitAnd(BitAnd(old, Not16(EPR_CTR_TX)), Not16(EPR_TOGGLE_MASK)), EPR_CTR_RX))

EPR_EP_TYPE_IS_ISO(epr) == BitAnd(epr, EPR_EP_TYPE_MASK) = EPR_EP_TYPE_ISO

StatTx(epr) == BitAnd(epr, EPR_STAT_TX_MASK)
StatRx(epr) == BitAnd(epr, EPR_STAT_RX_MASK)
Has(epr, bit) == BitAnd(epr, bit) # 0

-----------------------------------------------------------------------------
(* The packet memory allocator.                                            *)

\* The offset usb_pm_reset sets the cursor to.
PM_RESERVED == 64
STM32_USB_PMA_SIZE == 512

\* usb_pm_reset(usbp): the new cursor.
usb_pm_reset == PM_RESERVED

\* (size + 1) & ~1
RoundEven(size) == (size + 1) - ((size + 1) % 2)

\* The cursor after the allocation, as a bug might compute it.
PmAdvanceNoRound(next, size) == next + size

\* usbp->pmnext += (size + 1) & ~1
PmAdvance(next, size) == next + RoundEven(size)

\* usb_pm_alloc as a bug might write it: the assertion fails when the
\* allocation ends at the capacity.
PmAllocStrict(next, size) ==
  [ret |-> next,
   pmnext |-> PmAdvance(next, size),
   ok |-> PmAdvance(next, size) < STM32_USB_PMA_SIZE]

\* usb_pm_alloc(usbp, size): the value returned, the new cursor and whether
\* the assertion holds.
usb_pm_alloc(next, size) ==
  [ret |-> next,
   pmnext |-> PmAdvance(next, size),
   ok |-> PmAdvance(next, size) <= STM32_USB_PMA_SIZE]

-----------------------------------------------------------------------------
(* The packet transfer routines.  The packet memory is an array of         *)
(* halfwords; a descriptor udp is a record TXADDR0, TXCOUNT0, RXADDR0,     *)
(* RXCOUNT0; a byte buffer is the sequence of the bytes at the pointer; a  *)
(* queue is a record q_buf (the bytes between q_buffer and q_top),         *)
(* q_rdptr or q_wrptr (an offset from q_buffer), q_counter and q_waiting   *)
(* (whether threads wait on the queue).                                    *)

PmaHalfwords == STM32_USB_PMA_SIZE \div 2

\* USB_ADDR2PTR(addr): the halfword of the packet memory at byte offset addr.
USB_ADDR2PTR(addr) == addr \div 2

\* The loop of usb_packet_read_to_buffer: i bytes are copied, w is the
\* halfword fetched last, out the bytes stored through buf so far.
RECURSIVE ReadToBufferLoop(_, _, _, _, _, _)
ReadToBufferLoop(pm, pmap, i, n, w, out) ==
  IF i < n
    THEN IF i % 2 = 0
           THEN ReadToBufferLoop(pm, pmap + 1, i + 1, n, pm[pmap],
                                 Append(out, U8(pm[pmap])))
           ELSE ReadToBufferLoop(pm, pmap, i + 1, n, w,
                                 Append(out, U8(w \div 256)))
    ELSE out

\* usb_packet_read_to_buffer as a bug might write it: the odd bytes are taken
\* from the low byte too.
ReadToBufferLowOnly(pm, udp, n) ==
  [i \in 1 .. n |-> U8(pm[USB_ADDR2PTR(udp.RXADDR0) + ((i - 1) \div 2)])]

\* usb_packet_read_to_buffer(udp, buf, n): the n bytes stored through buf.
usb_packet_read_to_buffer(pm, udp, n) ==
  ReadToBufferLoop(pm, USB_ADDR2PTR(udp.RXADDR0), 0, n, 0, <<>>)

\* *iqp->q_wrptr++ = b with the wrap to q_buffer at q_top.
QueuePut(iqp, b) ==
  LET stored == [iqp EXCEPT !.q_buf[iqp.q_wrptr + 1] = b]
      wr == iqp.q_wrptr + 1
  IN [stored EXCEPT !.q_wrptr = IF wr >= Len(iqp.q_buf) THEN 0 ELSE wr]

\* The halfword loop of usb_packet_read_to_queue.
RECURSIVE ReadToQueueLoop(_, _, _, _)
ReadToQueueLoop(pm, pmap, iqp, nhw) ==
  IF nhw > 0
    THEN LET w == pm[pmap]
         IN ReadToQueueLoop(pm, pmap + 1,
                            QueuePut(QueuePut(iqp, U8(w)), U8(w \div 256)),
                            nhw - 1)
    ELSE [pmap |-> pmap, iqp |-> iqp]

\* usb_packet_read_to_queue as a bug might write it: no wrap of the write
\* pointer after the last byte of an odd count.
ReadToQueueNoLastWrap(pm, udp, iqp, n) ==
  LET bulk == ReadToQueueLoop(pm, USB_ADDR2PTR(udp.RXADDR0), iqp, n \div 2)
      q == bulk.iqp
      odd == IF n % 2 # 0
               THEN [q EXCEPT !.q_buf[q.q_wrptr + 1] = U8(pm[bulk.pmap]),
                              !.q_wrptr = q.q_wrptr + 1]
               ELSE q
  IN [odd EXCEPT !.q_counter = odd.q_counter + n, !.q_waiting = FALSE]

\* usb_packet_read_to_queue(udp, iqp, n): the queue afterwards.
usb_packet_read_to_queue(pm, udp, iqp, n) ==
  LET bulk == ReadToQueueLoop(pm, USB_ADDR2PTR(udp.RXADDR0), iqp, n \div 2)
      odd == IF n % 2 # 0
               THEN QueuePut(bulk.iqp, U8(pm[bulk.pmap]))
               ELSE bulk.iqp
  IN [odd EXCEPT !.q_counter = odd.q_counter + n, !.q_waiting = FALSE]

\* The loop of usb_packet_write_from_buffer and its remaining byte.
RECURSIVE WriteFromBufferLoop(_, _, _, _, _, _)
WriteFromBufferLoop(pm, pmap, buf, i, n, w) ==
  IF i < n
    THEN IF i % 2 = 0
           THEN WriteFromBufferLoop(pm, pmap, buf, i + 1, n, buf[i + 1])
           ELSE LET w2 == BitOr(w, buf[i + 1] * 256)
                IN WriteFromBufferLoop([pm EXCEPT ![pmap] = U16(w2)],
                                       pmap + 1, buf, i + 1, n, w2)
    ELSE IF i % 2 # 0 THEN [pm EXCEPT ![pmap] = U16(w)] ELSE pm

\* usb_packet_write_from_buffer as a bug might write it: the remaining byte
\* of an odd count is not written.
WriteFromBufferNoRemainder(pm, udp, buf, n) ==
  WriteFromBufferLoop(pm, USB_ADDR2PTR(udp.TXADDR0), buf, 0, n - (n % 2), 0)

\* usb_packet_write_from_buffer(udp, buf, n): the packet memory afterwards.
usb_packet_write_from_buffer(pm, udp, buf, n) ==
  WriteFromBufferLoop(pm, USB_ADDR2PTR(udp.TXADDR0), buf, 0, n, 0)

\* oqp->q_rdptr++ with the wrap to q_buffer at q_top.
QueueAdvance(oqp) ==
  LET rd == oqp.q_rdptr + 1
  IN [oqp EXCEPT !.q_rdptr = IF rd >= Len(oqp.q_buf) THEN 0 ELSE rd]

\* The halfword loop of usb_packet_write_from_queue.
RECURSIVE WriteFromQueueLoop(_, _, _, _)
WriteFromQueueLoop(pm, pmap, oqp, nhw) ==
  IF nhw > 0
    THEN LET q1 == QueueAdvance(oqp)
             w == BitOr(oqp.q_buf[oqp.q_rdptr + 1], q1.q_buf[q1.q_rdptr + 1] * 256)
         IN WriteFromQueueLoop([pm EXCEPT ![pmap] = U16(w)], pmap + 1,
                               QueueAdvance(q1), nhw - 1)
    ELSE [pm |-> pm, pmap |-> pmap, oqp |-> oqp]

\* usb_packet_write_from_queue(udp, oqp, n): the packet memory and the queue
\* afterwards.
usb_packet_write_from_queue(pm, udp, oqp, n) ==
  LET bulk == WriteFromQueueLoop(pm, USB_ADDR2PTR(udp.TXADDR0), oqp, n \div 2)
      odd == n % 2 # 0
      q == IF odd THEN QueueAdvance(bulk.oqp) ELSE bulk.oqp
  IN [pm |-> IF odd
               THEN [bulk.pm EXCEPT ![bulk.pmap] =
                       bulk.oqp.q_buf[bulk.oqp.q_rdptr + 1]]
               ELSE bulk.pm,
      oqp |-> [q EXCEPT !.q_counter = q.q_counter + n, !.q_waiting = FALSE]]

-----------------------------------------------------------------------------
(* The state before anything is configured.                                *)

NULL == [null |-> TRUE]

\* The byte values the buffers and packets are filled from.
Bytes == {1, 171}
\* What a buffer or the packet memory holds before it is written.
Fills == {0, 255}

NoDescriptor == [TXADDR0 |-> 0, TXCOUNT0 |-> 0, RXADDR0 |-> 0, RXCOUNT0 |-> 0]
NoInState == [txsize |-> 0, txcnt |-> 0, txqueued |-> FALSE, txbuf |-> 0]
NoOutState ==
  [rxsize |-> 0, rxcnt |-> 0, rxpkts |-> 0, rxqueued |-> FALSE, rxbuf |-> 0]
EmptyOutputQueue(fill) ==
  [q_buf |-> [i \in 1 .. QSize |-> fill], q_rdptr |-> 0, q_counter |-> 0,
   q_waiting |-> FALSE]
EmptyInputQueue(fill) ==
  [q_buf |-> [i \in 1 .. QSize |-> fill], q_wrptr |-> 0, q_counter |-> 0,
   q_waiting |-> FALSE]
\* History of the transaction in flight in each direction of an endpoint:
\* whether a prepared transaction waits for its start, the packets armed and
\* the packets the peripheral sent, the bytes it sent, the IN callbacks and
\* the packets sent when the first one fired; the packets the peripheral
\* received, the bytes and sizes of the packets the receive events carried,
\* the size of the buffer, the OUT callbacks, whether the handler validated
\* the endpoint after one, the sizes of the packets completed last, and the
\* payloads the driver wrote to the packet memory for the IN transaction.
NoTrace ==
  [tx_prepared |-> FALSE, tx_started |-> FALSE, armed |-> 0, sent |-> 0,
   wire_tx |-> <<>>, tx_pkts |-> <<>>, in_cb |-> 0, in_cb_sent |-> 0,
   hw_tx_size |-> 0,
   rx_prepared |-> FALSE, rx_started |-> FALSE, rcvd |-> 0, wire_rx |-> <<>>,
   rx_pkts |-> <<>>, rx_cap |-> 0, out_cb |-> 0, reval_after_cb |-> FALSE,
   hw_rx_size |-> 0, hw_rx_data |-> <<>>, lost |-> FALSE,
   tx_count |-> 0, rx_count |-> 0, hw_tx_count |-> 0, hw_rx_count |-> 0,
   written |-> <<>>]
\* The history of a direction when the upper layer abandons its transaction.
CancelIn(tr) ==
  [tr EXCEPT !.tx_prepared = FALSE, !.tx_started = FALSE, !.armed = 0,
             !.in_cb = 0, !.in_cb_sent = 0]
CancelOut(tr) ==
  [tr EXCEPT !.rx_prepared = FALSE, !.rx_started = FALSE, !.out_cb = 0,
             !.reval_after_cb = FALSE, !.rx_cap = 0, !.lost = FALSE]
NoConfig == [sof_cb |-> FALSE, low_power |-> FALSE]
\* served counts the iterations of the endpoint loop since the handler was
\* entered, up to two.
IsrIdle == [pc |-> "idle", ctr |-> FALSE, ep |-> 0, served |-> 0]
XfOff == [pc |-> "off"]

Blank ==
  /\ pmnext = usb_pm_reset
  /\ fatal = FALSE
  /\ epc = [e \in Eps |-> NULL]
  /\ EPR = [e \in Eps |-> 0]
  /\ btable = [e \in Eps |-> NoDescriptor]
  /\ pma = [i \in 0 .. PmaHalfwords - 1 |-> 0]
  /\ in_state = [e \in Eps |-> NoInState]
  /\ out_state = [e \in Eps |-> NoOutState]
  /\ transmitting = {}
  /\ receiving = {}
  /\ usbcfg = NoConfig
  /\ txmem = [e \in Eps |-> <<>>]
  /\ rxmem = [e \in Eps |-> <<>>]
  /\ oqueue = [e \in Eps |-> EmptyOutputQueue(0)]
  /\ iqueue = [e \in Eps |-> EmptyInputQueue(0)]
  /\ ISTR = {}
  /\ CNTR = {}
  /\ DADDR = 0
  /\ FNR_RXDP = FALSE
  /\ isr = IsrIdle
  /\ cb = {}
  /\ trace = [e \in Eps |-> NoTrace]
  /\ last = [op |-> "none"]
  /\ pm_hist = <<>>
  /\ xf = XfOff

-----------------------------------------------------------------------------
(* SpecPm: sequences of allocations after a reset of the allocator.        *)

AllocSizes == (0 .. 3) \cup {48, 64, 200}

InitPm == Blank

\* usb_pm_reset(usbp)
PmReset ==
  /\ ~fatal
  /\ pm_hist # <<>>
  /\ pmnext' = usb_pm_reset
  /\ pm_hist' = <<>>
  /\ UNCHANGED <<fatal, epc, EPR, btable, memVars, xferVars, usbcfg, busVars,
                 isr, cb, trace, last, xf>>

\* usb_pm_alloc(usbp, size)
PmAlloc(size) ==
  /\ ~fatal
  /\ Len(pm_hist) < MaxAllocs
  /\ LET r == usb_pm_alloc(pmnext, size)
     IN /\ pmnext' = r.pmnext
        /\ fatal' = ~r.ok
        /\ pm_hist' = Append(pm_hist, [size |-> size, ret |-> r.ret])
  /\ UNCHANGED <<epc, EPR, btable, memVars, xferVars, usbcfg, busVars, isr, cb,
                 trace, last, xf>>

NextPm == PmReset \/ \E size \in AllocSizes : PmAlloc(size)

SpecPm == InitPm /\ [][NextPm]_vars

\* The sum of the first k requested sizes, each rounded up to the next even
\* number.
RECURSIVE SumRounded(_, _)
SumRounded(h, k) ==
  IF k = 0 THEN 0
  ELSE SumRounded(h, k - 1)
         + (IF h[k].size % 2 = 0 THEN h[k].size ELSE h[k].size + 1)

\* C1: after a reset of the allocator the cursor is the reserved offset plus
\* the sum of the requested sizes rounded up to even, and the k-th call
\* returned the cursor that held before it.
C1_CursorIsSumOfRounded ==
  /\ pmnext = PM_RESERVED + SumRounded(pm_hist, Len(pm_hist))
  /\ \A k \in 1 .. Len(pm_hist) :
       pm_hist[k].ret = PM_RESERVED + SumRounded(pm_hist, k - 1)

C1_Witness ==
  /\ Len(pm_hist) >= 3
  /\ pm_hist[1].size % 2 = 1
  /\ pm_hist[2].size % 2 = 0
  /\ pm_hist[3].size % 2 = 1
  /\ ~fatal

-----------------------------------------------------------------------------
(* SpecXfer: a write of n bytes to a region of the packet memory followed  *)
(* by a read of n bytes from the same region, through endpoint 0's         *)
(* descriptor, buffers and queues.                                         *)

XferDescriptor ==
  [TXADDR0 |-> PM_RESERVED, TXCOUNT0 |-> 0, RXADDR0 |-> PM_RESERVED,
   RXCOUNT0 |-> 0]

InitXfer ==
  /\ pmnext = usb_pm_reset
  /\ fatal = FALSE
  /\ epc = [e \in Eps |-> NULL]
  /\ EPR = [e \in Eps |-> 0]
  /\ btable = [e \in Eps |-> IF e = 0 THEN XferDescriptor ELSE NoDescriptor]
  /\ in_state = [e \in Eps |-> NoInState]
  /\ out_state = [e \in Eps |-> NoOutState]
  /\ transmitting = {}
  /\ receiving = {}
  /\ usbcfg = NoConfig
  /\ ISTR = {}
  /\ CNTR = {}
  /\ DADDR = 0
  /\ FNR_RXDP = FALSE
  /\ isr = IsrIdle
  /\ cb = {}
  /\ trace = [e \in Eps |-> NoTrace]
  /\ last = [op |-> "none"]
  /\ pm_hist = <<>>
  /\ \E fill \in Fills, n \in 0 .. MaxN, wr \in 0 .. QSize - 1 :
       /\ pma = [i \in 0 .. PmaHalfwords - 1 |-> fill * 257]
       /\ rxmem = [e \in Eps |-> <<>>]
       /\ iqueue = [e \in Eps |->
                      IF e = 0
                        THEN [EmptyInputQueue(fill) EXCEPT !.q_wrptr = wr]
                        ELSE EmptyInputQueue(0)]
       /\ \/ \E src \in [1 .. n -> Bytes] :
               /\ txmem = [e \in Eps |-> IF e = 0 THEN src ELSE <<>>]
               /\ oqueue = [e \in Eps |-> EmptyOutputQueue(0)]
               /\ xf = [pc |-> "start", n |-> n, wmode |-> "buffer",
                        rmode |-> "none", oq0 |-> EmptyOutputQueue(0),
                        iq0 |-> iqueue[0]]
          \/ \E qb \in [1 .. QSize -> Bytes], rd \in 0 .. QSize - 1 :
               /\ n <= QSize
               /\ txmem = [e \in Eps |-> <<>>]
               /\ oqueue = [e \in Eps |->
                              IF e = 0
                                THEN [q_buf |-> qb, q_rdptr |-> rd,
                                      q_counter |-> 0, q_waiting |-> TRUE]
                                ELSE EmptyOutputQueue(0)]
               /\ xf = [pc |-> "start", n |-> n, wmode |-> "queue",
                        rmode |-> "none", oq0 |-> oqueue[0],
                        iq0 |-> iqueue[0]]

xferFrame ==
  <<pmnext, fatal, epc, EPR, btable, xferVars, usbcfg, busVars, isr, cb, trace,
    last, pm_hist>>

XferWriteFromBuffer ==
  /\ xf.pc = "start"
  /\ xf.wmode = "buffer"
  /\ pma' = usb_packet_write_from_buffer(pma, btable[0], txmem[0], xf.n)
  /\ xf' = [xf EXCEPT !.pc = "written"]
  /\ UNCHANGED <<txmem, rxmem, oqueue, iqueue>>
  /\ UNCHANGED xferFrame

XferWriteFromQueue ==
  /\ xf.pc = "start"
  /\ xf.wmode = "queue"
  /\ LET r == usb_packet_write_from_queue(pma, btable[0], oqueue[0], xf.n)
     IN /\ pma' = r.pm
        /\ oqueue' = [oqueue EXCEPT ![0] = r.oqp]
  /\ xf' = [xf EXCEPT !.pc = "written"]
  /\ UNCHANGED <<txmem, rxmem, iqueue>>
  /\ UNCHANGED xferFrame

XferReadToBuffer ==
  /\ xf.pc = "written"
  /\ rxmem' = [rxmem EXCEPT ![0] = usb_packet_read_to_buffer(pma, btable[0], xf.n)]
  /\ xf' = [xf EXCEPT !.pc = "done", !.rmode = "buffer"]
  /\ UNCHANGED <<pma, txmem, oqueue, iqueue>>
  /\ UNCHANGED xferFrame

XferReadToQueue ==
  /\ xf.pc = "written"
  /\ xf.n <= Len(iqueue[0].q_buf)
  /\ iqueue' = [iqueue EXCEPT ![0] =
                  usb_packet_read_to_queue(pma, btable[0], iqueue[0], xf.n)]
  /\ xf' = [xf EXCEPT !.pc = "done", !.rmode = "queue"]
  /\ UNCHANGED <<pma, txmem, rxmem, oqueue>>
  /\ UNCHANGED xferFrame

NextXfer ==
  \/ XferWriteFromBuffer
  \/ XferWriteFromQueue
  \/ XferReadToBuffer
  \/ XferReadToQueue

SpecXfer == InitXfer /\ [][NextXfer]_vars

\* C6: n bytes written with write-from-buffer and read back with
\* read-to-buffer from the same region are the original n bytes.
C6_BufferRoundTrip ==
  (xf.pc = "done" /\ xf.wmode = "buffer" /\ xf.rmode = "buffer")
    => rxmem[0] = txmem[0]

C6_Witness ==
  /\ xf.pc = "done" /\ xf.wmode = "buffer" /\ xf.rmode = "buffer"
  /\ xf.n = 3
  /\ txmem[0] = <<1, 171, 171>>
  /\ rxmem[0] = txmem[0]

\* The byte of a queue's buffer i places after offset from, wrapping at the
\* top.
QueueByte(q, from, i) == q.q_buf[((from + i) % Len(q.q_buf)) + 1]

\* C7: n bytes moved from an output queue to the packet memory and from there
\* to an input queue keep their order and value, also when a cursor wraps,
\* and after each routine the cursor lies inside the queue's buffer.
C7_QueueRoundTrip ==
  /\ (xf.pc \in {"written", "done"} /\ xf.wmode = "queue")
       => /\ oqueue[0].q_rdptr \in 0 .. Len(oqueue[0].q_buf) - 1
          /\ oqueue[0].q_rdptr = (xf.oq0.q_rdptr + xf.n) % Len(oqueue[0].q_buf)
  /\ (xf.pc = "done" /\ xf.rmode = "queue")
       => /\ iqueue[0].q_wrptr \in 0 .. Len(iqueue[0].q_buf) - 1
          /\ iqueue[0].q_wrptr = (xf.iq0.q_wrptr + xf.n) % Len(iqueue[0].q_buf)
  /\ (xf.pc = "done" /\ xf.wmode = "queue" /\ xf.rmode = "queue")
       => \A i \in 0 .. xf.n - 1 :
            QueueByte(iqueue[0], xf.iq0.q_wrptr, i)
              = QueueByte(xf.oq0, xf.oq0.q_rdptr, i)

\* An odd count whose transfer wraps both the read and the write cursor.
C7_Witness ==
  /\ xf.pc = "done" /\ xf.wmode = "queue" /\ xf.rmode = "queue"
  /\ xf.n = 3
  /\ xf.oq0.q_rdptr = QSize - 1
  /\ xf.iq0.q_wrptr = QSize - 2
  /\ xf.oq0.q_buf[QSize] = 171
  /\ xf.oq0.q_buf[1] = 1
  /\ xf.oq0.q_rdptr + xf.n > QSize
  /\ xf.iq0.q_wrptr + xf.n > QSize

-----------------------------------------------------------------------------
(* Endpoint configuration and the endpoint register operations.            *)

USB_EP_MODE_TYPE_CTRL == "CTRL"
USB_EP_MODE_TYPE_ISOC == "ISOC"
USB_EP_MODE_TYPE_BULK == "BULK"
USB_EP_MODE_TYPE_INTR == "INTR"

\* ep0config.  A callback is TRUE when it is not NULL.
ep0config ==
  [ep_mode |-> USB_EP_MODE_TYPE_CTRL, setup_cb |-> TRUE, in_cb |-> TRUE,
   out_cb |-> TRUE, in_maxsize |-> 64, out_maxsize |-> 64]

\* The configurations the upper layer gives the other endpoints.
\* The maximum packet size of a direction that has no callback is zero.
EpConfigs ==
  {c \in [ep_mode : {USB_EP_MODE_TYPE_ISOC, USB_EP_MODE_TYPE_BULK},
          setup_cb : {FALSE}, in_cb : BOOLEAN, out_cb : BOOLEAN,
          in_maxsize : 0 .. MaxPkt, out_maxsize : 0 .. MaxPkt] :
     /\ c.in_cb = (c.in_maxsize # 0)
     /\ c.out_cb = (c.out_maxsize # 0)}
  \cup
  {[ep_mode |-> USB_EP_MODE_TYPE_INTR, setup_cb |-> FALSE, in_cb |-> TRUE,
    out_cb |-> FALSE, in_maxsize |-> 1, out_maxsize |-> 0]}

\* The aliases of the second buffer's descriptor fields (stm32_usb.h).
TXCOUNT1(d) == d.RXCOUNT0
RXCOUNT1(d) == d.TXCOUNT0
TXADDR1(d) == d.RXADDR0
RXADDR1(d) == d.TXADDR0
SetTXCOUNT1(d, v) == [d EXCEPT !.RXCOUNT0 = v]
SetRXCOUNT1(d, v) == [d EXCEPT !.TXCOUNT0 = v]
SetTXADDR1(d, v) == [d EXCEPT !.RXADDR0 = v]
SetRXADDR1(d, v) == [d EXCEPT !.TXADDR0 = v]

\* The endpoint type switch of usb_lld_init_endpoint.
EpTypeCode(mode) ==
  CASE mode = USB_EP_MODE_TYPE_ISOC -> EPR_EP_TYPE_ISO
    [] mode = USB_EP_MODE_TYPE_BULK -> EPR_EP_TYPE_BULK
    [] mode = USB_EP_MODE_TYPE_INTR -> EPR_EP_TYPE_INTERRUPT
    [] OTHER -> EPR_EP_TYPE_CONTROL

\* nblocks of usb_lld_init_endpoint; (m - 1) | mask in int arithmetic, where
\* m = 0 gives -1 | mask = -1.
Nblocks(m) ==
  IF m > 62
    THEN BitOr(((BitOr(m - 1, 31) + 1) \div 32) * 1024, 32768)
    ELSE IF m = 0 THEN 0 ELSE ((BitOr(m - 1, 1) + 1) \div 2) * 1024

\* The initial status bits as a bug might set them: NAK for every type.
InitialStatusAllNak(epcp) ==
  (IF epcp.in_cb THEN EPR_STAT_TX_NAK ELSE 0)
    + (IF epcp.out_cb THEN EPR_STAT_RX_NAK ELSE 0)

\* The initial status bits usb_lld_init_endpoint ors into epr.
InitialStatus(epcp) ==
  IF epcp.ep_mode = USB_EP_MODE_TYPE_ISOC
    THEN (IF epcp.in_cb THEN EPR_STAT_TX_VALID ELSE 0)
           + (IF epcp.out_cb THEN EPR_STAT_RX_VALID ELSE 0)
    ELSE (IF epcp.in_cb THEN EPR_STAT_TX_NAK ELSE 0)
           + (IF epcp.out_cb THEN EPR_STAT_RX_NAK ELSE 0)

\* The assertion of usb_lld_init_endpoint as a bug might leave it out.
IsoDirectionsUnchecked(epcp) == TRUE

\* The assertion of usb_lld_init_endpoint: an isochronous endpoint has at
\* most one of the two callbacks.
IsoDirectionsOk(epcp) ==
  epcp.ep_mode = USB_EP_MODE_TYPE_ISOC => (~epcp.in_cb \/ ~epcp.out_cb)

\* usb_lld_init_endpoint(usbp, ep) with configuration epcp, cursor next,
\* register value old and descriptor d: the cursor, the descriptor, the
\* register and the allocations afterwards, and whether an assertion failed
\* (the function stops there).
usb_lld_init_endpoint(ep, epcp, next, old, d) ==
  LET isoc == epcp.ep_mode = USB_EP_MODE_TYPE_ISOC
      iso_ok == IsoDirectionsOk(epcp)
      d1 == [d EXCEPT !.TXCOUNT0 = 0, !.RXCOUNT0 = Nblocks(epcp.out_maxsize)]
      a1 == usb_pm_alloc(next, epcp.in_maxsize)
      d2 == [d1 EXCEPT !.TXADDR0 = a1.ret]
      a2 == usb_pm_alloc(a1.pmnext, epcp.out_maxsize)
      d3 == [d2 EXCEPT !.RXADDR0 = a2.ret]
      d4 == IF isoc /\ epcp.in_cb
              THEN SetTXADDR1(SetTXCOUNT1(d3, d3.TXCOUNT0), d3.TXADDR0)
              ELSE d3
      d5 == IF isoc /\ epcp.out_cb
              THEN SetRXADDR1(SetRXCOUNT1(d4, d4.RXCOUNT0), d4.RXADDR0)
              ELSE d4
      epr == EpTypeCode(epcp.ep_mode) + InitialStatus(epcp)
      h1 == [size |-> epcp.in_maxsize, ret |-> a1.ret]
      h2 == [size |-> epcp.out_maxsize, ret |-> a2.ret]
  IN IF ~iso_ok
       THEN [fatal |-> TRUE, pmnext |-> next, desc |-> d, epr |-> old,
             allocs |-> <<>>]
     ELSE IF ~a1.ok
       THEN [fatal |-> TRUE, pmnext |-> a1.pmnext, desc |-> d1, epr |-> old,
             allocs |-> <<h1>>]
     ELSE IF ~a2.ok
       THEN [fatal |-> TRUE, pmnext |-> a2.pmnext, desc |-> d2, epr |-> old,
             allocs |-> <<h1, h2>>]
     ELSE [fatal |-> FALSE, pmnext |-> a2.pmnext, desc |-> d5,
           epr |-> EPR_TOGGLE(EPR_SET(old, BitOr(epr, ep)), epr),
           allocs |-> <<h1, h2>>]

\* usb_lld_clear_in as a bug might write it: NAK whatever the status is.
ClearInAlways(old) == EPR_SET_STAT_TX(old, EPR_STAT_TX_NAK)

\* usb_lld_get_status_in as a bug might write it: the status of the other
\* direction.
GetStatusInFromRx(epr) ==
  CASE StatRx(epr) = EPR_STAT_RX_DIS -> "EP_STATUS_DISABLED"
    [] StatRx(epr) = EPR_STAT_RX_STALL -> "EP_STATUS_STALLED"
    [] OTHER -> "EP_STATUS_ACTIVE"

\* usb_lld_get_status_out(usbp, ep)
usb_lld_get_status_out(epr) ==
  CASE StatRx(epr) = EPR_STAT_RX_DIS -> "EP_STATUS_DISABLED"
    [] StatRx(epr) = EPR_STAT_RX_STALL -> "EP_STATUS_STALLED"
    [] OTHER -> "EP_STATUS_ACTIVE"

\* usb_lld_get_status_in(usbp, ep)
usb_lld_get_status_in(epr) ==
  CASE StatTx(epr) = EPR_STAT_TX_DIS -> "EP_STATUS_DISABLED"
    [] StatTx(epr) = EPR_STAT_TX_STALL -> "EP_STATUS_STALLED"
    [] OTHER -> "EP_STATUS_ACTIVE"

\* usb_lld_start_out(usbp, ep): the register afterwards.
usb_lld_start_out(old) == EPR_SET_STAT_RX(old, EPR_STAT_RX_VALID)

\* usb_lld_start_in(usbp, ep)
usb_lld_start_in(old) == EPR_SET_STAT_TX(old, EPR_STAT_TX_VALID)

\* usb_lld_stall_out(usbp, ep)
usb_lld_stall_out(old) == EPR_SET_STAT_RX(old, EPR_STAT_RX_STALL)

\* usb_lld_stall_in(usbp, ep)
usb_lld_stall_in(old) == EPR_SET_STAT_TX(old, EPR_STAT_TX_STALL)

\* usb_lld_clear_out(usbp, ep)
usb_lld_clear_out(old) ==
  IF StatRx(old) # EPR_STAT_RX_VALID
    THEN EPR_SET_STAT_TX(old, EPR_STAT_RX_NAK)
    ELSE old

\* usb_lld_clear_in(usbp, ep)
usb_lld_clear_in(old) ==
  IF StatTx(old) # EPR_STAT_TX_VALID
    THEN EPR_SET_STAT_TX(old, EPR_STAT_TX_NAK)
    ELSE old

-----------------------------------------------------------------------------
(* Reset, and the state the driver starts in.                              *)

DADDR_EF == 128
CntrResetMasks == {"RESETM", "SUSPM", "WKUPM", "CTRM"}

\* The k-th byte of the data a transaction carries.
StreamByte(k) == (k * 85 + 1) % 256
Stream(n) == [i \in 1 .. n |-> StreamByte(i - 1)]

\* usb_lld_reset as a bug might write it: the function is not enabled.
ResetNoEnable(regs, descs, cfg) ==
  LET r == usb_lld_init_endpoint(0, ep0config, usb_pm_reset, regs[0], descs[0])
  IN [ISTR |-> {},
      DADDR |-> 0,
      CNTR |-> CntrResetMasks \cup (IF cfg.sof_cb THEN {"SOFM"} ELSE {}),
      pmnext |-> r.pmnext,
      fatal |-> r.fatal,
      epc |-> [e \in Eps |-> IF e = 0 THEN ep0config ELSE NULL],
      EPR |-> [regs EXCEPT ![0] = r.epr],
      btable |-> [descs EXCEPT ![0] = r.desc],
      pm_hist |-> r.allocs]

\* _usb_reset(usbp) of the upper layer followed by usb_lld_reset(usbp), from
\* the registers regs and descriptors descs: every configuration is dropped,
\* the control and address registers are set, the allocator is reset and
\* endpoint 0 is configured again.
usb_lld_reset(regs, descs, cfg) ==
  LET r == usb_lld_init_endpoint(0, ep0config, usb_pm_reset, regs[0], descs[0])
  IN [ISTR |-> {},
      DADDR |-> DADDR_EF,
      CNTR |-> CntrResetMasks \cup (IF cfg.sof_cb THEN {"SOFM"} ELSE {}),
      pmnext |-> r.pmnext,
      fatal |-> r.fatal,
      epc |-> [e \in Eps |-> IF e = 0 THEN ep0config ELSE NULL],
      EPR |-> [regs EXCEPT ![0] = r.epr],
      btable |-> [descs EXCEPT ![0] = r.desc],
      pm_hist |-> r.allocs]

\* After usb_lld_init and usb_lld_start: the reset procedure has run once.
Init ==
  /\ \E sof \in BOOLEAN, lp \in BOOLEAN :
       usbcfg = [sof_cb |-> sof, low_power |-> lp]
  /\ LET r == usb_lld_reset([e \in Eps |-> 0], [e \in Eps |-> NoDescriptor],
                            usbcfg)
     IN /\ pmnext = r.pmnext
        /\ fatal = r.fatal
        /\ epc = r.epc
        /\ EPR = r.EPR
        /\ btable = r.btable
        /\ ISTR = r.ISTR
        /\ CNTR = r.CNTR
        /\ DADDR = r.DADDR
        /\ pm_hist = r.pm_hist
  /\ pma = [i \in 0 .. PmaHalfwords - 1 |-> 0]
  /\ in_state = [e \in Eps |-> NoInState]
  /\ out_state = [e \in Eps |-> NoOutState]
  /\ transmitting = {}
  /\ receiving = {}
  /\ txmem = [e \in Eps |-> <<>>]
  /\ rxmem = [e \in Eps |-> <<>>]
  /\ oqueue = [e \in Eps |-> EmptyOutputQueue(0)]
  /\ iqueue = [e \in Eps |-> EmptyInputQueue(0)]
  /\ FNR_RXDP = FALSE
  /\ isr = IsrIdle
  /\ cb = {}
  /\ trace = [e \in Eps |-> NoTrace]
  /\ last = [op |-> "start", ep |-> 0, pre |-> 0]
  /\ xf = XfOff

-----------------------------------------------------------------------------
(* The operations the upper layer calls from thread context.               *)

\* A thread runs: nothing has halted the system and the handler is not
\* running.
Thread == ~fatal /\ isr.pc = "idle"

Did(op, ep, pre) == [op |-> op, ep |-> ep, pre |-> pre]

\* usbInitEndpointI: the configuration is recorded, the transfer states are
\* cleared and usb_lld_init_endpoint is called.
InitEndpoint(ep, cfg) ==
  /\ Thread
  /\ ep # 0
  /\ epc[ep] = NULL
  /\ LET r == usb_lld_init_endpoint(ep, cfg, pmnext, EPR[ep], btable[ep])
     IN /\ pmnext' = r.pmnext
        /\ fatal' = r.fatal
        /\ EPR' = [EPR EXCEPT ![ep] = r.epr]
        /\ btable' = [btable EXCEPT ![ep] = r.desc]
        /\ pm_hist' = pm_hist \o r.allocs
  /\ epc' = [epc EXCEPT ![ep] = cfg]
  /\ in_state' = [in_state EXCEPT ![ep] = NoInState]
  /\ out_state' = [out_state EXCEPT ![ep] = NoOutState]
  /\ trace' = [trace EXCEPT ![ep] = NoTrace]
  /\ last' = Did("init_endpoint", ep, EPR[ep])
  /\ cb' = {}
  /\ txmem' = [txmem EXCEPT ![ep] = <<>>]
  /\ rxmem' = [rxmem EXCEPT ![ep] = <<>>]
  /\ UNCHANGED <<transmitting, receiving, usbcfg, pma, oqueue, iqueue, busVars,
                 isr, xf>>

\* usb_lld_disable_endpoints as a bug might write it: EPR_SET alone.
DisableSetOnly(regs) ==
  [pmnext |-> usb_pm_reset,
   EPR |-> [e \in Eps |-> IF e = 0 THEN regs[e] ELSE EPR_SET(regs[e], 0)]]

\* usb_lld_disable_endpoints(usbp): the cursor and the registers afterwards.
usb_lld_disable_endpoints(regs) ==
  [pmnext |-> usb_pm_reset,
   EPR |-> [e \in Eps |->
              IF e = 0 THEN regs[e] ELSE EPR_SET(EPR_TOGGLE(regs[e], 0), 0)]]

\* usbDisableEndpointsI and usb_lld_disable_endpoints(usbp).
DisableEndpoints ==
  /\ Thread
  /\ pmnext' = usb_lld_disable_endpoints(EPR).pmnext
  /\ pm_hist' = <<>>
  /\ EPR' = usb_lld_disable_endpoints(EPR).EPR
  /\ epc' = [e \in Eps |-> IF e = 0 THEN epc[e] ELSE NULL]
  /\ transmitting' = transmitting \cap {0}
  /\ receiving' = receiving \cap {0}
  /\ trace' = [e \in Eps |-> IF e = 0 THEN trace[e] ELSE NoTrace]
  /\ last' = Did("disable_endpoints", 0, EPR[0])
  /\ cb' = {}
  /\ UNCHANGED <<fatal, btable, in_state, out_state, usbcfg, memVars, busVars,
                 isr, xf>>

StatusOp(op, ep, new, tr) ==
  /\ Thread
  /\ epc[ep] # NULL
  /\ EPR' = [EPR EXCEPT ![ep] = new]
  /\ trace' = [trace EXCEPT ![ep] = tr]
  /\ last' = Did(op, ep, EPR[ep])
  /\ cb' = {}
  /\ UNCHANGED <<pmnext, fatal, epc, btable, xferVars, usbcfg, memVars, busVars,
                 isr, pm_hist, xf>>

\* An isochronous endpoint is only ever disabled or valid, so the upper layer
\* stalls the others only.
Stallable(ep) == epc[ep] # NULL /\ epc[ep].ep_mode # USB_EP_MODE_TYPE_ISOC

\* usbStallReceiveI, which does nothing while a receive operation is active,
\* and usb_lld_stall_out(usbp, ep).  The upper layer abandons the transaction
\* it had prepared.
StallOut(ep) ==
  /\ Stallable(ep)
  /\ epc[ep].out_cb
  /\ ep \notin receiving
  /\ StatusOp("stall_out", ep, usb_lld_stall_out(EPR[ep]),
              CancelOut(trace[ep]))

\* usbStallTransmitI, which does nothing while a transmit operation is
\* active, and usb_lld_stall_in(usbp, ep).
StallIn(ep) ==
  /\ Stallable(ep)
  /\ epc[ep].in_cb
  /\ ep \notin transmitting
  /\ StatusOp("stall_in", ep, usb_lld_stall_in(EPR[ep]), CancelIn(trace[ep]))

ClearOut(ep) ==
  StatusOp("clear_out", ep, usb_lld_clear_out(EPR[ep]), trace[ep])
ClearIn(ep) ==
  StatusOp("clear_in", ep, usb_lld_clear_in(EPR[ep]), trace[ep])

\* usbGetReceiveStatusI and usb_lld_get_status_out(usbp, ep): the value
\* returned is recorded.
GetStatusOut(ep) ==
  /\ Thread
  /\ last' = [op |-> "get_status_out", ep |-> ep, pre |-> EPR[ep],
              ret |-> usb_lld_get_status_out(EPR[ep])]
  /\ cb' = {}
  /\ UNCHANGED <<drvVars, memVars, xferVars, usbcfg, busVars, isr, trace,
                 pm_hist, xf>>

\* usbGetTransmitStatusI and usb_lld_get_status_in(usbp, ep).
GetStatusIn(ep) ==
  /\ Thread
  /\ last' = [op |-> "get_status_in", ep |-> ep, pre |-> EPR[ep],
              ret |-> usb_lld_get_status_in(EPR[ep])]
  /\ cb' = {}
  /\ UNCHANGED <<drvVars, memVars, xferVars, usbcfg, busVars, isr, trace,
                 pm_hist, xf>>

-----------------------------------------------------------------------------
(* Transactions: prepare and start.                                        *)

\* The n bytes at offset off of the buffer mem; a byte past the end of the
\* buffer is read as junk.
BufAt(mem, off, n, junk) ==
  [i \in 1 .. n |-> IF off + i \in 1 .. Len(mem) THEN mem[off + i] ELSE junk]

\* The memory that held mem after bytes are stored at offset off (the
\* sequence grows when the bytes are stored past its end).
WriteAt(mem, off, bytes) ==
  LET len == IF off + Len(bytes) > Len(mem) THEN off + Len(bytes) ELSE Len(mem)
  IN [i \in 1 .. len |->
        IF i > off /\ i <= off + Len(bytes) THEN bytes[i - off]
        ELSE IF i <= Len(mem) THEN mem[i]
        ELSE 0]

\* The packet count as a bug might compute it: rounded down.
PrepareReceiveFloor(osp, maxsize) ==
  IF osp.rxsize = 0 THEN 1 ELSE U16(osp.rxsize \div maxsize)

\* usb_lld_prepare_receive(usbp, ep): the value given to osp->rxpkts.
usb_lld_prepare_receive(osp, maxsize) ==
  IF osp.rxsize = 0
    THEN 1
    ELSE U16((osp.rxsize + maxsize - 1) \div maxsize)

\* The byte count of the first packet as a bug might compute it: not capped.
FirstPacketUncapped(txsize, maxsize) == txsize

\* The byte count of the first packet in usb_lld_prepare_transmit.
FirstPacketSize(txsize, maxsize) ==
  IF U32Gt(txsize, maxsize) THEN maxsize ELSE txsize

\* usb_lld_prepare_transmit(usbp, ep): the descriptor, the packet memory and
\* the output queue afterwards, and the byte count n of the packet.
usb_lld_prepare_transmit(isp, epcp, epr, d, pm, mem, oqp, junk) ==
  LET n == FirstPacketSize(isp.txsize, epcp.in_maxsize)
      d1 == [d EXCEPT !.TXCOUNT0 = U16(n)]
      d2 == IF EPR_EP_TYPE_IS_ISO(epr) /\ Has(epr, EPR_DTOG_TX)
              THEN SetTXCOUNT1(d1, U16(n))
              ELSE d1
  IN IF isp.txqueued
       THEN LET r == usb_packet_write_from_queue(pm, d2, oqp, n)
            IN [desc |-> d2, pm |-> r.pm, oqp |-> r.oqp, n |-> n]
       ELSE [desc |-> d2,
             pm |-> usb_packet_write_from_buffer(
                      pm, d2, BufAt(mem, isp.txbuf, n, junk), n),
             oqp |-> oqp, n |-> n]

\* The n bytes the peripheral fetches from addr.
HwLoad(pm, addr, n) ==
  [i \in 1 .. n |->
     LET w == pm[(addr \div 2) + ((i - 1) \div 2)]
     IN IF (i - 1) % 2 = 0 THEN w % 256 ELSE w \div 256]

\* The sizes of the transactions the upper layer asks for.
XferSizes(queued) == IF queued THEN 0 .. QSize ELSE 0 .. MaxXfer

\* usbPrepareReceive or usbPrepareQueuedReceive, which fill the transfer
\* state, and usb_lld_prepare_receive(usbp, ep).
PrepareReceive(ep, size, queued) ==
  /\ Thread
  /\ epc[ep] # NULL
  /\ epc[ep].out_cb
  /\ ep \notin receiving
  /\ trace[ep].rx_count < MaxTxns
  /\ LET osp == [rxsize |-> size, rxcnt |-> 0, rxpkts |-> 0,
                 rxqueued |-> queued, rxbuf |-> 0]
     IN out_state' = [out_state EXCEPT ![ep] =
          [osp EXCEPT !.rxpkts =
             usb_lld_prepare_receive(osp, epc[ep].out_maxsize)]]
  /\ rxmem' = [rxmem EXCEPT ![ep] = <<>>]
  /\ iqueue' = [iqueue EXCEPT ![ep].q_counter = 0, ![ep].q_waiting = queued]
  /\ trace' = [trace EXCEPT ![ep].rx_prepared = TRUE,
                            ![ep].rx_started = FALSE,
                            ![ep].rx_count = @ + 1,
                            ![ep].rcvd = 0, ![ep].wire_rx = <<>>,
                            ![ep].rx_pkts = <<>>,
                            ![ep].rx_cap = size, ![ep].out_cb = 0,
                            ![ep].reval_after_cb = FALSE,
                            ![ep].lost = FALSE]
  /\ last' = Did("prepare_receive", ep, EPR[ep])
  /\ cb' = {}
  /\ UNCHANGED <<drvVars, pma, txmem, oqueue, in_state, transmitting, receiving,
                 usbcfg, busVars, isr, pm_hist, xf>>

\* usbStartReceiveI and usb_lld_start_out(usbp, ep).
StartOut(ep) ==
  /\ Thread
  /\ epc[ep] # NULL
  /\ trace[ep].rx_prepared
  /\ ep \notin receiving
  /\ receiving' = receiving \cup {ep}
  /\ EPR' = [EPR EXCEPT ![ep] = usb_lld_start_out(EPR[ep])]
  /\ trace' = [trace EXCEPT ![ep].rx_prepared = FALSE,
                            ![ep].rx_started = TRUE]
  /\ last' = Did("start_out", ep, EPR[ep])
  /\ cb' = {}
  /\ UNCHANGED <<pmnext, fatal, epc, btable, memVars, in_state, out_state,
                 transmitting, usbcfg, busVars, isr, pm_hist, xf>>

\* usbPrepareTransmit or usbPrepareQueuedTransmit, which fill the transfer
\* state, and usb_lld_prepare_transmit(usbp, ep).
PrepareTransmit(ep, size, queued) ==
  /\ Thread
  /\ epc[ep] # NULL
  /\ epc[ep].in_cb
  /\ ep \notin transmitting
  /\ trace[ep].tx_count < MaxTxns
  /\ LET isp == [txsize |-> size, txcnt |-> 0, txqueued |-> queued,
                 txbuf |-> 0]
         mem == IF queued THEN <<>> ELSE Stream(size)
         rd == oqueue[ep].q_rdptr
         oqp == IF queued
                  THEN [q_buf |-> [i \in 1 .. QSize |->
                                     StreamByte((i - 1 - rd) % QSize)],
                        q_rdptr |-> rd, q_counter |-> QSize - size,
                        q_waiting |-> TRUE]
                  ELSE oqueue[ep]
         r == usb_lld_prepare_transmit(isp, epc[ep], EPR[ep], btable[ep], pma,
                                       mem, oqp, 0)
     IN /\ in_state' = [in_state EXCEPT ![ep] = isp]
        /\ txmem' = [txmem EXCEPT ![ep] = mem]
        /\ btable' = [btable EXCEPT ![ep] = r.desc]
        /\ pma' = r.pm
        /\ oqueue' = [oqueue EXCEPT ![ep] = r.oqp]
        /\ last' = [op |-> "prepare_transmit", ep |-> ep, pre |-> EPR[ep],
                    n |-> r.n]
        /\ trace' = [trace EXCEPT
                       ![ep].tx_prepared = TRUE,
                       ![ep].written = HwLoad(r.pm, r.desc.TXADDR0, r.n),
                       ![ep].tx_started = FALSE,
                       ![ep].tx_count = @ + 1,
                       ![ep].armed = 1, ![ep].sent = 0,
                       ![ep].wire_tx = <<>>, ![ep].tx_pkts = <<>>,
                       ![ep].in_cb = 0, ![ep].in_cb_sent = 0]
  /\ cb' = {}
  /\ UNCHANGED <<pmnext, fatal, epc, EPR, rxmem, iqueue, out_state,
                 transmitting, receiving, usbcfg, busVars, isr, pm_hist, xf>>

\* usbStartTransmitI and usb_lld_start_in(usbp, ep).
StartIn(ep) ==
  /\ Thread
  /\ epc[ep] # NULL
  /\ trace[ep].tx_prepared
  /\ ep \notin transmitting
  /\ transmitting' = transmitting \cup {ep}
  /\ EPR' = [EPR EXCEPT ![ep] = usb_lld_start_in(EPR[ep])]
  /\ trace' = [trace EXCEPT ![ep].tx_prepared = FALSE,
                            ![ep].tx_started = TRUE]
  /\ last' = Did("start_in", ep, EPR[ep])
  /\ cb' = {}
  /\ UNCHANGED <<pmnext, fatal, epc, btable, memVars, in_state, out_state,
                 receiving, usbcfg, busVars, isr, pm_hist, xf>>

\* usb_lld_set_address(usbp): the address register afterwards.
usb_lld_set_address(address) == BitOr(address, DADDR_EF)

\* The addresses the host assigns.
Addresses == {5}

SetAddress(address) ==
  /\ Thread
  /\ DADDR' = usb_lld_set_address(address)
  /\ last' = Did("set_address", 0, EPR[0])
  /\ cb' = {}
  /\ UNCHANGED <<drvVars, memVars, xferVars, usbcfg, ISTR, CNTR, FNR_RXDP, isr,
                 trace, pm_hist, xf>>

-----------------------------------------------------------------------------
(* The peripheral.                                                         *)

\* The most packets the peripheral moves in one direction of an endpoint
\* after it is configured.
MaxHwPkts == 3

\* The peripheral answers the host: the function is enabled and the bus is
\* not suspended.
OnBus == BitAnd(DADDR, DADDR_EF) # 0 /\ "FSUSP" \notin CNTR

\* The packet memory after the peripheral stored the bytes data at addr.
HwStore(pm, addr, data) ==
  [i \in DOMAIN pm |->
     LET k == 2 * (i - (addr \div 2))
     IN IF k >= 0 /\ k < Len(data)
          THEN data[k + 1]
                 + 256 * (IF k + 1 < Len(data) THEN data[k + 2]
                          ELSE pm[i] \div 256)
          ELSE pm[i]]

\* The status bits of a direction replaced by stat, the other bits kept.
WithStat(epr, mask, stat) == (epr - BitAnd(epr, mask)) + stat
\* The bit set, cleared or flipped.
WithBit(epr, bit) == BitOr(epr, bit)
WithoutBit(epr, bit) == epr - BitAnd(epr, bit)
FlipBit(epr, bit) == BitXor(epr, bit)

\* The bytes the receive region of an endpoint takes, as nblocks declares
\* them to the peripheral: blocks of 32 bytes when the flag bit is set, of 2
\* bytes when it is not.
RxCapacity(m) ==
  LET blocks == (Nblocks(m) % 32768) \div 1024
  IN IF Nblocks(m) >= 32768 THEN 32 * blocks ELSE 2 * blocks

\* The sizes of the packets the peripheral accepts from the host on an
\* endpoint: a packet is accepted when it fits the receive region.
HostSizes(ep) ==
  0 .. (IF RxCapacity(epc[ep].out_maxsize) < MaxPkt
          THEN RxCapacity(epc[ep].out_maxsize)
          ELSE MaxPkt)

\* The peripheral sends the packet armed on an IN endpoint: it takes the
\* count and the address of the buffer half DTOG_TX names (half 0 when the
\* endpoint is not isochronous), flips DTOG_TX, raises CTR_TX and, unless
\* the endpoint is isochronous, answers NAK from then on.
HwInPacket(ep) ==
  /\ ~fatal
  /\ OnBus
  /\ epc[ep] # NULL
  /\ StatTx(EPR[ep]) = EPR_STAT_TX_VALID
  /\ trace[ep].hw_tx_count < MaxHwPkts
  /\ LET epr == EPR[ep]
         iso == EPR_EP_TYPE_IS_ISO(epr)
         half1 == iso /\ Has(epr, EPR_DTOG_TX)
         d == btable[ep]
         count == BitAnd(IF half1 THEN TXCOUNT1(d) ELSE d.TXCOUNT0,
                         RXCOUNT_COUNT_MASK)
         addr == IF half1 THEN TXADDR1(d) ELSE d.TXADDR0
         data == HwLoad(pma, addr, count)
         e1 == FlipBit(WithBit(epr, EPR_CTR_TX), EPR_DTOG_TX)
     IN /\ EPR' = [EPR EXCEPT ![ep] =
                     IF iso THEN e1
                     ELSE WithStat(e1, EPR_STAT_TX_MASK, EPR_STAT_TX_NAK)]
        /\ trace' = [trace EXCEPT ![ep].sent = @ + 1,
                                  ![ep].hw_tx_count = @ + 1,
                                  ![ep].wire_tx = @ \o data,
                                  ![ep].tx_pkts = Append(@, count),
                                  ![ep].hw_tx_size = count]
        /\ last' = Did("hw_in", ep, epr)
  /\ cb' = {}
  /\ UNCHANGED <<pmnext, fatal, epc, btable, memVars, xferVars, usbcfg,
                 busVars, isr, pm_hist, xf>>

\* The peripheral receives a packet of the given size on an OUT endpoint: it
\* stores it in the buffer half DTOG_RX names (half 0 when the endpoint is
\* not isochronous) and its size in the count of that half, flips DTOG_RX,
\* raises CTR_RX and, unless the endpoint is isochronous, answers NAK from
\* then on.  A packet whose event was not handled yet is lost.
HwOutPacket(ep, size) ==
  /\ ~fatal
  /\ OnBus
  /\ epc[ep] # NULL
  /\ StatRx(EPR[ep]) = EPR_STAT_RX_VALID
  /\ trace[ep].hw_rx_count < MaxHwPkts
  /\ size \in HostSizes(ep)
  /\ LET epr == EPR[ep]
         iso == EPR_EP_TYPE_IS_ISO(epr)
         half1 == iso /\ Has(epr, EPR_DTOG_RX)
         d == btable[ep]
         addr == IF half1 THEN RXADDR1(d) ELSE d.RXADDR0
         old == IF half1 THEN RXCOUNT1(d) ELSE d.RXCOUNT0
         new == (old - BitAnd(old, RXCOUNT_COUNT_MASK)) + size
         data == [i \in 1 .. size |->
                    StreamByte(trace[ep].hw_rx_count * MaxPkt + i - 1)]
         e1 == FlipBit(WithoutBit(WithBit(epr, EPR_CTR_RX), EPR_SETUP),
                       EPR_DTOG_RX)
     IN /\ EPR' = [EPR EXCEPT ![ep] =
                     IF iso THEN e1
                     ELSE WithStat(e1, EPR_STAT_RX_MASK, EPR_STAT_RX_NAK)]
        /\ btable' = [btable EXCEPT ![ep] =
                        IF half1 THEN SetRXCOUNT1(d, new)
                        ELSE [d EXCEPT !.RXCOUNT0 = new]]
        /\ pma' = HwStore(pma, addr, data)
        /\ trace' = [trace EXCEPT ![ep].rcvd = @ + 1,
                                  ![ep].hw_rx_count = @ + 1,
                                  ![ep].hw_rx_size = size,
                                  ![ep].hw_rx_data = data,
                                  ![ep].lost = @ \/ Has(epr, EPR_CTR_RX)]
        /\ last' = Did("hw_out", ep, epr)
  /\ cb' = {}
  /\ UNCHANGED <<pmnext, fatal, epc, txmem, rxmem, oqueue, iqueue, xferVars,
                 usbcfg, busVars, isr, pm_hist, xf>>

\* The eight bytes of the setup packets the host sends.
SetupPackets == {[i \in 1 .. 8 |-> StreamByte(i + k)] : k \in {0, 8}}

\* The peripheral receives a SETUP packet on a control endpoint: both
\* directions answer NAK from then on, SETUP and CTR_RX are raised.
HwSetup(ep, data) ==
  /\ ~fatal
  /\ OnBus
  /\ epc[ep] # NULL
  /\ BitAnd(EPR[ep], EPR_EP_TYPE_MASK) = EPR_EP_TYPE_CONTROL
  /\ StatRx(EPR[ep]) # EPR_STAT_RX_DIS
  /\ ~Has(EPR[ep], EPR_CTR_RX)
  /\ trace[ep].hw_rx_count < MaxHwPkts
  /\ LET epr == EPR[ep]
         d == btable[ep]
         new == (d.RXCOUNT0 - BitAnd(d.RXCOUNT0, RXCOUNT_COUNT_MASK)) + 8
         e1 == FlipBit(WithBit(WithBit(epr, EPR_CTR_RX), EPR_SETUP),
                       EPR_DTOG_RX)
     IN /\ EPR' = [EPR EXCEPT ![ep] =
                     WithStat(WithStat(e1, EPR_STAT_RX_MASK, EPR_STAT_RX_NAK),
                              EPR_STAT_TX_MASK, EPR_STAT_TX_NAK)]
        /\ btable' = [btable EXCEPT ![ep].RXCOUNT0 = new]
        /\ pma' = HwStore(pma, d.RXADDR0, data)
        /\ last' = Did("hw_setup", ep, epr)
  /\ trace' = [trace EXCEPT ![ep] =
                 [CancelOut(CancelIn(trace[ep])) EXCEPT !.hw_rx_count = @ + 1]]
  /\ cb' = {}
  /\ UNCHANGED <<pmnext, fatal, epc, txmem, rxmem, oqueue, iqueue, xferVars,
                 usbcfg, busVars, isr, pm_hist, xf>>

\* A condition of the bus raises its flag in ISTR.  A bus reset also clears
\* the endpoint registers and the address register.
HwFlag(flag) ==
  /\ ~fatal
  /\ flag \notin ISTR
  /\ flag = "WKUP" => "FSUSP" \in CNTR
  /\ ISTR' = ISTR \cup {flag}
  /\ IF flag = "RESET"
       THEN EPR' = [e \in Eps |-> 0] /\ DADDR' = 0
       ELSE UNCHANGED <<EPR, DADDR>>
  /\ IF flag = "WKUP"
       THEN /\ \E rxdp \in BOOLEAN : FNR_RXDP' = rxdp
            /\ CNTR' = CNTR \ {"LP_MODE"}
       ELSE UNCHANGED <<FNR_RXDP, CNTR>>
  /\ last' = Did("hw_flag", 0, EPR[0])
  /\ cb' = {}
  /\ UNCHANGED <<pmnext, fatal, epc, btable, memVars, xferVars, usbcfg, isr,
                 trace, pm_hist, xf>>

-----------------------------------------------------------------------------
(* The interrupt handler.                                                  *)

\* The endpoints with an event as a bug of the loop might see them: only
\* endpoint 0.
CtrEpsZeroOnly(regs) ==
  {e \in {0} : Has(regs[e], EPR_CTR_TX) \/ Has(regs[e], EPR_CTR_RX)}

\* The endpoints whose register shows an event, which is what ISTR_CTR and
\* ISTR_EP_ID report.
CtrEps(regs) ==
  {e \in Eps : Has(regs[e], EPR_CTR_TX) \/ Has(regs[e], EPR_CTR_RX)}

FlagMask(flag) ==
  CASE flag = "RESET" -> "RESETM"
    [] flag = "SUSP" -> "SUSPM"
    [] flag = "WKUP" -> "WKUPM"
    [] OTHER -> "SOFM"

\* The peripheral requests the interrupt.
IrqPending ==
  \/ \E flag \in ISTR : FlagMask(flag) \in CNTR
  \/ "CTRM" \in CNTR /\ CtrEps(EPR) # {}

\* usb_lld_read_setup as a bug might write it: the high byte of each
\* halfword first.
ReadSetupHighFirst(pm, udp) ==
  [i \in 1 .. 8 |->
     LET w == pm[USB_ADDR2PTR(udp.RXADDR0) + ((i - 1) \div 2)]
     IN IF (i - 1) % 2 = 0 THEN U8(w \div 256) ELSE U8(w)]

\* usb_lld_read_setup(usbp, ep, buf): the eight bytes stored through buf.
usb_lld_read_setup(pm, udp) ==
  [i \in 1 .. 8 |->
     LET w == pm[USB_ADDR2PTR(udp.RXADDR0) + ((i - 1) \div 2)]
     IN IF (i - 1) % 2 = 0 THEN U8(w) ELSE U8(w \div 256)]

NoEvent == [hit |-> FALSE]

\* The wakeup test as a bug might write it: every wakeup taken as a resume.
ResumeAlways(rxdp) == TRUE

\* if (!(fnr & FNR_RXDP)): the line state shows a resume.
GenuineResume(rxdp) == ~rxdp

\* The handler from its entry to the endpoint loop: istr is read once, then
\* the reset, suspend, wakeup and start of frame conditions are handled.
\* When istr shows no endpoint event the loop is skipped and the handler
\* returns.
IsrEnter ==
  /\ ~fatal
  /\ isr.pc = "idle"
  /\ IrqPending
  /\ LET istr == ISTR
         rst == "RESET" \in istr
         susp == "SUSP" \in istr
         wkup == "WKUP" \in istr
         sof == "SOF" \in istr
         r == usb_lld_reset(EPR, btable, usbcfg)
         cntr1 == IF rst THEN r.CNTR ELSE CNTR
         cntr2 == IF susp
                    THEN cntr1 \cup {"FSUSP"}
                           \cup (IF usbcfg.low_power THEN {"LP_MODE"} ELSE {})
                    ELSE cntr1
         resume == GenuineResume(FNR_RXDP)
         cntr3 == IF wkup
                    THEN IF resume THEN cntr2 \ {"FSUSP"}
                         ELSE IF usbcfg.low_power THEN cntr2 \cup {"LP_MODE"}
                         ELSE cntr2
                    ELSE cntr2
     IN /\ ISTR' = (IF rst THEN r.ISTR ELSE ISTR) \ istr
        /\ CNTR' = cntr3
        /\ DADDR' = IF rst THEN r.DADDR ELSE DADDR
        /\ pmnext' = IF rst THEN r.pmnext ELSE pmnext
        /\ fatal' = IF rst THEN r.fatal ELSE fatal
        /\ epc' = IF rst THEN r.epc ELSE epc
        /\ EPR' = IF rst THEN r.EPR ELSE EPR
        /\ btable' = IF rst THEN r.btable ELSE btable
        /\ pm_hist' = IF rst THEN r.pm_hist ELSE pm_hist
        /\ transmitting' = IF rst THEN {} ELSE transmitting
        /\ receiving' = IF rst THEN {} ELSE receiving
        /\ trace' = IF rst
                      THEN [e \in Eps |->
                              IF e = 0 THEN CancelOut(CancelIn(trace[e]))
                              ELSE NoTrace]
                      ELSE trace
        /\ cb' = (IF rst THEN {<<"reset", 0>>} ELSE {})
                   \cup (IF susp THEN {<<"suspend", 0>>} ELSE {})
                   \cup (IF wkup /\ resume THEN {<<"wakeup", 0>>} ELSE {})
                   \cup (IF sof /\ usbcfg.sof_cb THEN {<<"sof", 0>>} ELSE {})
        /\ last' = [op |-> "isr", ep |-> 0, pre |-> EPR[0], istr |-> istr,
                    cntr |-> CNTR, rxdp |-> FNR_RXDP, cntr_wk |-> cntr2]
  /\ IF CtrEps(EPR) = {}
       THEN isr' = IsrIdle
       ELSE \E e \in CtrEps(EPR) :
              isr' = [pc |-> "ctr", ctr |-> TRUE, ep |-> e, served |-> 0]
  /\ UNCHANGED <<memVars, in_state, out_state, usbcfg, FNR_RXDP, xf>>

Min(a, b) == IF a < b THEN a ELSE b

\* The buffer half whose count the handler reads, as a bug might select it:
\* the half the toggle bit names.
CurrentHalf(epr, dtog) ==
  IF EPR_EP_TYPE_IS_ISO(epr) /\ Has(epr, dtog) THEN 1 ELSE 0

\* The buffer half whose count the handler reads: half 0, or half 1 when the
\* endpoint is isochronous and the toggle bit is clear.
CountHalf(epr, dtog) ==
  IF EPR_EP_TYPE_IS_ISO(epr) /\ ~Has(epr, dtog) THEN 1 ELSE 0

\* The source cursor as a bug might leave it: not advanced.
TxbufNotAdvanced(txbuf, transmitted) == txbuf

\* epcp->in_state->mode.linear.txbuf += transmitted
TxbufAdvanced(txbuf, transmitted) == txbuf + transmitted

\* The CTR_TX branch of the endpoint loop, on the values s the iteration
\* works on; epr is the register value read at the top of the iteration.
CtrTx(ep, epr, epcp, s, junk) ==
  LET e1 == EPR_CLEAR_CTR_TX(s.epr)
      iso == EPR_EP_TYPE_IS_ISO(epr)
      half == CountHalf(epr, EPR_DTOG_TX)
      transmitted == IF half = 1 THEN TXCOUNT1(s.desc) ELSE s.desc.TXCOUNT0
      txcnt == s.isp.txcnt + transmitted
      n0 == s.isp.txsize - txcnt
      n == IF U32Gt(n0, epcp.in_maxsize) THEN epcp.in_maxsize ELSE n0
      d1 == [s.desc EXCEPT !.TXCOUNT0 = U16(n)]
      d2 == IF iso /\ Has(epr, EPR_DTOG_TX) THEN SetTXCOUNT1(d1, U16(n)) ELSE d1
      txbuf == TxbufAdvanced(s.isp.txbuf, transmitted)
      wq == usb_packet_write_from_queue(s.pm, d2, s.oq, n)
      intx == s.tr.tx_prepared \/ s.tr.tx_started
      wpm == IF s.isp.txqueued
               THEN wq.pm
               ELSE usb_packet_write_from_buffer(
                      s.pm, d2, BufAt(s.tx, txbuf, n, junk), n)
      ev == [hit |-> TRUE, n |-> transmitted, half |-> half,
             rearm |-> n0 # 0, wn |-> IF n0 # 0 THEN n ELSE 0]
  IN IF n0 # 0
       THEN [s EXCEPT
               !.epr = usb_lld_start_in(e1),
               !.desc = d2,
               !.isp.txcnt = txcnt,
               !.isp.txbuf = IF s.isp.txqueued THEN @ ELSE txbuf,
               !.pm = wpm,
               !.oq = IF s.isp.txqueued THEN wq.oqp ELSE @,
               !.tr.armed = IF intx THEN @ + 1 ELSE @,
               !.tr.written = IF intx THEN @ \o HwLoad(wpm, d2.TXADDR0, n)
                              ELSE @,
               !.tx_ev = ev]
       ELSE [s EXCEPT
               !.epr = e1,
               !.isp.txcnt = txcnt,
               !.transmitting = @ \ {ep},
               !.cbs = IF epcp.in_cb THEN @ \cup {<<"in", ep>>} ELSE @,
               !.tr.in_cb = IF intx THEN Min(@ + 1, 2) ELSE @,
               !.tr.in_cb_sent = IF intx /\ s.tr.in_cb = 0 THEN s.tr.sent
                                 ELSE @,
               !.tx_ev = ev]

\* The register after a receive event, as a bug might set it: valid again
\* whether the transaction is completed or not.
RxStatusAlwaysValid(e1, done) == EPR_SET_STAT_RX(e1, EPR_STAT_RX_VALID)

\* The register after a receive event: left alone when the transaction is
\* completed, valid again when it is not.
RxStatusAfter(e1, done) ==
  IF done THEN e1 ELSE EPR_SET_STAT_RX(e1, EPR_STAT_RX_VALID)

\* The completion test as a bug might write it: the packet count alone.
RxDoneCountOnly(n, maxsize, rxpkts) == rxpkts = 0

\* (n < epcp->out_maxsize) || (epcp->out_state->rxpkts == 0)
RxDone(n, maxsize, rxpkts) == U32Lt(n, maxsize) \/ rxpkts = 0

\* The SETUP test as a bug might write it: no packet taken as a SETUP.
IsSetupNever(epr) == FALSE

\* if (epr & EPR_SETUP)
IsSetup(epr) == Has(epr, EPR_SETUP)

\* The CTR_RX branch of the endpoint loop.
CtrRx(ep, epr, epcp, s) ==
  LET e1 == EPR_CLEAR_CTR_RX(s.epr)
      iso == EPR_EP_TYPE_IS_ISO(epr)
      half == CountHalf(epr, EPR_DTOG_RX)
      n == BitAnd(IF half = 1 THEN RXCOUNT1(s.desc) ELSE s.desc.RXCOUNT0,
                  RXCOUNT_COUNT_MASK)
      rxpkts == U16(s.osp.rxpkts - 1)
      done == RxDone(n, epcp.out_maxsize, rxpkts)
      intx == s.tr.rx_prepared \/ s.tr.rx_started
      moved == IF s.osp.rxqueued
                 THEN [s EXCEPT !.iq = usb_packet_read_to_queue(
                                         s.pm, s.desc, s.iq, n)]
                 ELSE [s EXCEPT !.rx = WriteAt(s.rx, s.osp.rxbuf,
                                         usb_packet_read_to_buffer(
                                           s.pm, s.desc, n)),
                                !.osp.rxbuf = @ + n]
      counted == [moved EXCEPT !.osp.rxcnt = @ + n,
                               !.osp.rxsize = @ - n,
                               !.osp.rxpkts = rxpkts,
                               !.tr.wire_rx = @ \o s.tr.hw_rx_data,
                               !.tr.rx_pkts = Append(@, s.tr.hw_rx_size),
                               !.rx_ev = [hit |-> TRUE, setup |-> FALSE,
                                          n |-> n, half |-> half,
                                          done |-> done]]
  IN IF IsSetup(epr)
       THEN [s EXCEPT
               !.epr = e1,
               !.cbs = IF epcp.setup_cb THEN @ \cup {<<"setup", ep>>} ELSE @,
               !.transmitting = @ \ {ep},
               !.receiving = @ \ {ep},
               !.rx_ev = [hit |-> TRUE, setup |-> TRUE,
                          buf |-> usb_lld_read_setup(s.pm, s.desc),
                          osp |-> s.osp]]
     ELSE IF done
       THEN [counted EXCEPT
               !.epr = RxStatusAfter(e1, done),
               !.receiving = @ \ {ep},
               !.cbs = IF epcp.out_cb THEN @ \cup {<<"out", ep>>} ELSE @,
               !.tr.out_cb = IF intx THEN Min(@ + 1, 2) ELSE @]
     ELSE [counted EXCEPT
             !.epr = RxStatusAfter(e1, done),
             !.tr.reval_after_cb = @ \/ (intx /\ s.tr.out_cb > 0)]

\* One iteration of the endpoint loop, for the endpoint ISTR named when it
\* was read last; ISTR is read again at the end of the iteration and the
\* handler returns when it shows no endpoint event.  Reading
\* through the configuration pointer of an endpoint that has none halts the
\* system.
IsrCtr ==
  /\ ~fatal
  /\ isr.pc = "ctr"
  /\ isr.ctr
  /\ LET ep == isr.ep
         epr == EPR[ep]
         epcp == epc[ep]
         tx == Has(epr, EPR_CTR_TX)
         rx == Has(epr, EPR_CTR_RX)
         s0 == [epr |-> epr, desc |-> btable[ep], pm |-> pma,
                isp |-> in_state[ep], osp |-> out_state[ep],
                oq |-> oqueue[ep], iq |-> iqueue[ep],
                tx |-> txmem[ep], rx |-> rxmem[ep], tr |-> trace[ep],
                cbs |-> {}, transmitting |-> transmitting,
                receiving |-> receiving, tx_ev |-> NoEvent,
                rx_ev |-> NoEvent]
     IN \E junk \in Fills :
        \E s1 \in {IF tx /\ epcp # NULL THEN CtrTx(ep, epr, epcp, s0, junk)
                    ELSE s0} :
        \E s2 \in {IF rx /\ epcp # NULL THEN CtrRx(ep, epr, epcp, s1)
                    ELSE s1} :
          LET regs == [EPR EXCEPT ![ep] = s2.epr]
          IN /\ fatal' = ((tx \/ rx) /\ epcp = NULL)
             /\ EPR' = regs
             /\ btable' = [btable EXCEPT ![ep] = s2.desc]
             /\ pma' = s2.pm
             /\ in_state' = [in_state EXCEPT ![ep] = s2.isp]
             /\ out_state' = [out_state EXCEPT ![ep] = s2.osp]
             /\ oqueue' = [oqueue EXCEPT ![ep] = s2.oq]
             /\ iqueue' = [iqueue EXCEPT ![ep] = s2.iq]
             /\ rxmem' = [rxmem EXCEPT ![ep] = s2.rx]
             /\ trace' = [trace EXCEPT ![ep] = s2.tr]
             /\ transmitting' = s2.transmitting
             /\ receiving' = s2.receiving
             /\ cb' = s2.cbs
             /\ last' = [op |-> "ctr", ep |-> ep, pre |-> epr,
                         tx |-> s2.tx_ev, rx |-> s2.rx_ev,
                         served |-> Min(isr.served + 1, 2),
                         osp |-> out_state[ep], rxm |-> rxmem[ep],
                         iq |-> iqueue[ep]]
             /\ IF CtrEps(regs) = {}
                  THEN isr' = IsrIdle
                  ELSE \E e \in CtrEps(regs) :
                         isr' = [pc |-> "ctr", ctr |-> TRUE, ep |-> e,
                                 served |-> Min(isr.served + 1, 2)]
  /\ UNCHANGED <<pmnext, epc, txmem, usbcfg, busVars, pm_hist, xf>>

-----------------------------------------------------------------------------
(* The driver with the upper layer above it and the peripheral below.      *)

Next ==
  \/ \E ep \in Eps, cfg \in EpConfigs : InitEndpoint(ep, cfg)
  \/ DisableEndpoints
  \/ \E ep \in Eps : StallOut(ep)
  \/ \E ep \in Eps : StallIn(ep)
  \/ \E ep \in Eps : ClearOut(ep)
  \/ \E ep \in Eps : ClearIn(ep)
  \/ \E ep \in Eps : GetStatusOut(ep)
  \/ \E ep \in Eps : GetStatusIn(ep)
  \/ \E ep \in Eps, queued \in BOOLEAN :
       \E size \in XferSizes(queued) : PrepareReceive(ep, size, queued)
  \/ \E ep \in Eps : StartOut(ep)
  \/ \E ep \in Eps, queued \in BOOLEAN :
       \E size \in XferSizes(queued) : PrepareTransmit(ep, size, queued)
  \/ \E ep \in Eps : StartIn(ep)
  \/ \E address \in Addresses : SetAddress(address)
  \/ \E ep \in Eps : HwInPacket(ep)
  \/ \E ep \in Eps : \E size \in 0 .. MaxPkt : HwOutPacket(ep, size)
  \/ \E ep \in Eps, data \in SetupPackets : HwSetup(ep, data)
  \/ \E flag \in {"RESET", "SUSP", "WKUP", "SOF"} : HwFlag(flag)
  \/ IsrEnter
  \/ IsrCtr

Spec == Init /\ [][Next]_vars

-----------------------------------------------------------------------------
(* Scenarios: the same operations, on one endpoint and one direction, or   *)
(* without traffic.                                                        *)

\* The start of the scenarios: no start of frame callback, no low power mode.
InitIo == Init /\ usbcfg = NoConfig

InConfigs == {c \in EpConfigs : c.in_cb /\ ~c.out_cb}
OutConfigs == {c \in EpConfigs : c.out_cb /\ ~c.in_cb}

\* SpecIn: IN transactions on endpoint 1.
NextIn ==
  \/ \E cfg \in InConfigs : InitEndpoint(1, cfg)
  \/ \E queued \in BOOLEAN :
       \E size \in XferSizes(queued) : PrepareTransmit(1, size, queued)
  \/ StartIn(1)
  \/ HwInPacket(1)
  \/ IsrEnter
  \/ IsrCtr

SpecIn == InitIo /\ [][NextIn]_vars

\* SpecOut: OUT transactions on endpoint 1.
NextOut ==
  \/ \E cfg \in OutConfigs : InitEndpoint(1, cfg)
  \/ \E queued \in BOOLEAN :
       \E size \in XferSizes(queued) : PrepareReceive(1, size, queued)
  \/ StartOut(1)
  \/ \E size \in 0 .. MaxPkt : HwOutPacket(1, size)
  \/ IsrEnter
  \/ IsrCtr

SpecOut == InitIo /\ [][NextOut]_vars

\* SpecEp: the operations on the register of endpoint 1, without traffic;
\* the transactions prepared are empty ones.
NextEp ==
  \/ \E cfg \in EpConfigs : InitEndpoint(1, cfg)
  \/ StallOut(1)
  \/ StallIn(1)
  \/ ClearOut(1)
  \/ ClearIn(1)
  \/ PrepareReceive(1, 0, FALSE)
  \/ StartOut(1)
  \/ PrepareTransmit(1, 0, FALSE)
  \/ StartIn(1)

SpecEp == InitIo /\ [][NextEp]_vars

-----------------------------------------------------------------------------
(* Properties of the transactions.                                         *)

\* The least number of packets of at most m bytes that carry s bytes.
CeilDiv(s, m) == CHOOSE k \in 0 .. s : k * m >= s /\ (k = 0 \/ (k - 1) * m < s)

RECURSIVE Sum(_)
Sum(q) == IF q = <<>> THEN 0 ELSE Head(q) + Sum(Tail(q))

Configured(ep) == epc[ep] # NULL
NonIso(ep) == Configured(ep) /\ epc[ep].ep_mode # USB_EP_MODE_TYPE_ISOC
InTx(ep) == trace[ep].tx_prepared \/ trace[ep].tx_started
InRx(ep) == trace[ep].rx_prepared \/ trace[ep].rx_started

\* What holds of an IN transaction that takes packets packets.
InTransactionTakes(ep, packets) ==
  LET tr == trace[ep]
  IN /\ tr.armed <= packets
     /\ tr.sent <= tr.armed
     /\ tr.in_cb <= 1
     /\ tr.in_cb = 1 =>
          /\ tr.in_cb_sent = packets
          /\ tr.sent = packets
          /\ tr.armed = packets
          /\ ep \notin transmitting
     /\ (Has(EPR[ep], EPR_CTR_TX) /\ tr.in_cb = 0) => tr.armed = tr.sent
     /\ (~Has(EPR[ep], EPR_CTR_TX) /\ tr.in_cb = 0) => tr.armed = tr.sent + 1

\* C2 as stated: an IN transaction of S bytes on an endpoint of maximum
\* packet size M arms and sends exactly ceil(S/M) packets, and the IN
\* callback is invoked once, on the event of the last of them.
C2_CeilPacketsOneCallback ==
  \A ep \in Eps :
    (Configured(ep) /\ InTx(ep)) =>
      InTransactionTakes(ep, CeilDiv(in_state[ep].txsize, epc[ep].in_maxsize))

\* C2, amended: on an endpoint that is not isochronous an IN transaction of
\* S bytes arms and sends max(1, ceil(S/M)) packets (an empty transaction
\* sends one empty packet), each event with bytes outstanding arms the next
\* packet, and the IN callback is invoked once, on the event of the last
\* packet and on no earlier one.
C2_PacketsOneCallbackNonIso ==
  \A ep \in Eps :
    (NonIso(ep) /\ InTx(ep)) =>
      LET p == CeilDiv(in_state[ep].txsize, epc[ep].in_maxsize)
      IN InTransactionTakes(ep, IF p = 0 THEN 1 ELSE p)

\* Five bytes went out in three packets and the callback was invoked.
C2_Witness ==
  /\ NonIso(1) /\ InTx(1)
  /\ in_state[1].txsize = 5 /\ epc[1].in_maxsize = 2
  /\ trace[1].tx_pkts = <<2, 2, 1>>
  /\ trace[1].in_cb = 1

\* What holds of an OUT transaction and its callback.
OneOutCallback(ep) ==
  LET tr == trace[ep]
  IN /\ tr.out_cb <= 1
     /\ ~tr.reval_after_cb
     /\ tr.out_cb = 1 =>
          /\ ep \notin receiving
          /\ StatRx(EPR[ep]) # EPR_STAT_RX_VALID
     /\ (tr.rx_started /\ tr.out_cb = 0 /\ ~Has(EPR[ep], EPR_CTR_RX)) =>
          /\ ep \in receiving
          /\ StatRx(EPR[ep]) = EPR_STAT_RX_VALID

\* C3 as stated: the OUT callback is invoked once in every OUT transaction
\* and the handler does not validate the endpoint again after it.
C3_OneOutCallback ==
  \A ep \in Eps :
    (Configured(ep) /\ InRx(ep)) =>
      (trace[ep].out_cb <= 1 /\ ~trace[ep].reval_after_cb)

\* C3, amended: on an endpoint that is not isochronous the OUT callback is
\* invoked once in an OUT transaction, whatever the number of packets; the
\* endpoint is valid until then, and after it the handler leaves the
\* endpoint not valid.
C3_OneOutCallbackNonIso ==
  \A ep \in Eps : (NonIso(ep) /\ InRx(ep)) => OneOutCallback(ep)

\* Three packets were received before the callback.
C3_Witness ==
  /\ NonIso(1) /\ trace[1].rx_started
  /\ Len(trace[1].rx_pkts) = 3
  /\ trace[1].out_cb = 1
  /\ StatRx(EPR[1]) = EPR_STAT_RX_NAK

C5_BufferIsPayloads ==
  \A ep \in Eps :
    (Configured(ep) /\ InRx(ep) /\ ~out_state[ep].rxqueued
       /\ trace[ep].out_cb >= 1) =>
      /\ rxmem[ep] = trace[ep].wire_rx
      /\ out_state[ep].rxcnt = Sum(trace[ep].rx_pkts)
      /\ out_state[ep].rxcnt = Len(rxmem[ep])

\* A transaction of five bytes received in packets of two, two and one.
C5_Witness ==
  /\ InRx(1) /\ ~out_state[1].rxqueued
  /\ epc[1].out_maxsize = 2
  /\ trace[1].rx_cap = 5
  /\ trace[1].rx_pkts = <<2, 2, 1>>
  /\ trace[1].out_cb = 1
  /\ Len(rxmem[1]) = 5
  /\ rxmem[1][1] # rxmem[1][2]

\* C8 as stated: on an event of an isochronous endpoint the handler reads
\* the count of the buffer half the toggle bit does not name, and that count
\* is the size of the packet that was completed last.
C8_CountOfCompletedPacket ==
  (last.op = "ctr" /\ EPR_EP_TYPE_IS_ISO(last.pre)) =>
    /\ last.tx.hit =>
         /\ last.tx.half = (IF Has(last.pre, EPR_DTOG_TX) THEN 0 ELSE 1)
         /\ last.tx.n = trace[last.ep].hw_tx_size
    /\ (last.rx.hit /\ ~last.rx.setup) =>
         /\ last.rx.half = (IF Has(last.pre, EPR_DTOG_RX) THEN 0 ELSE 1)
         /\ last.rx.n = trace[last.ep].hw_rx_size

\* C9: clear-in on an endpoint whose IN status is valid, and clear-out on
\* one whose OUT status is valid, leave the endpoint register as it was.
C9_ClearOnValidIsNoOp ==
  /\ (last.op = "clear_in" /\ StatTx(last.pre) = EPR_STAT_TX_VALID) =>
       EPR[last.ep] = last.pre
  /\ (last.op = "clear_out" /\ StatRx(last.pre) = EPR_STAT_RX_VALID) =>
       EPR[last.ep] = last.pre

\* clear-in was called on an endpoint valid for IN and stalled for OUT.
C9_Witness ==
  /\ last.op = "clear_in"
  /\ StatTx(last.pre) = EPR_STAT_TX_VALID
  /\ StatRx(last.pre) = EPR_STAT_RX_STALL
  /\ EPR[last.ep] = last.pre

\* C10 as stated: clear-out on an endpoint whose OUT status is not valid
\* sets the OUT status to NAK.
C10_ClearOutSetsNak ==
  (last.op = "clear_out" /\ StatRx(last.pre) # EPR_STAT_RX_VALID) =>
    StatRx(EPR[last.ep]) = EPR_STAT_RX_NAK

-----------------------------------------------------------------------------
(* SpecSetup: the control endpoint, with SETUP packets arriving around one *)
(* OUT transaction.                                                        *)

NextSetup ==
  \/ \E size \in {0, 3} : PrepareReceive(0, size, FALSE)
  \/ StartOut(0)
  \/ \E size \in 0 .. MaxPkt : HwOutPacket(0, size)
  \/ \E data \in SetupPackets : HwSetup(0, data)
  \/ IsrEnter
  \/ IsrCtr

SpecSetup == InitIo /\ [][NextSetup]_vars

\* C11: the setup callback's read-setup yields the eight bytes that are in
\* the endpoint's receive region of the packet memory at that moment, the
\* low byte of each of the four halfwords first; these are the bytes of the
\* SETUP packet.  The statuses of the endpoint and its OUT transfer state are
\* what they were before.
C11_ReadSetup ==
  (last.op = "ctr" /\ last.rx.hit /\ last.rx.setup) =>
    /\ Len(last.rx.buf) = 8
    /\ last.rx.buf = HwLoad(pma, btable[last.ep].RXADDR0, 8)
    /\ last.rx.buf \in SetupPackets
    /\ StatRx(EPR[last.ep]) = StatRx(last.pre)
    /\ StatTx(EPR[last.ep]) = StatTx(last.pre)
    /\ out_state[last.ep] = last.rx.osp

\* A SETUP packet was read while an OUT transaction of three bytes had
\* received two.
C11_Witness ==
  /\ last.op = "ctr" /\ last.rx.hit /\ last.rx.setup
  /\ last.rx.buf = [i \in 1 .. 8 |-> StreamByte(i + 8)]
  /\ out_state[0].rxcnt = 2
  /\ out_state[0].rxsize = 1
  /\ <<"setup", 0>> \in cb

\* What holds of the payloads of an IN transaction from a flat buffer: those
\* written to the packet memory so far are, end to end, the first bytes of
\* the source; the bytes sent never exceed the bytes requested; when the
\* callback is invoked the payloads are the S bytes of the source.
InSlices(ep) ==
  LET tr == trace[ep]
      isp == in_state[ep]
  IN /\ isp.txcnt <= isp.txsize
     /\ Len(tr.written) <= isp.txsize
     /\ \A i \in 1 .. Len(tr.written) : tr.written[i] = txmem[ep][i]
     /\ tr.in_cb = 1 => Len(tr.written) = isp.txsize

\* C24 as stated: for every IN transaction from a flat buffer the payloads
\* written to the packet memory are consecutive slices of the source, none
\* repeated or skipped, and bytes-sent never exceeds the total requested.
C24_InSlices ==
  \A ep \in Eps :
    (Configured(ep) /\ InTx(ep) /\ ~in_state[ep].txqueued) => InSlices(ep)

\* C24, amended: on an endpoint that is not isochronous the payloads written
\* to the packet memory for an IN transaction from a flat buffer are
\* consecutive slices of the source, none repeated or skipped, the whole of
\* them the first S bytes when the callback is invoked, and bytes-sent never
\* exceeds the total requested.
C24_InSlicesNonIso ==
  \A ep \in Eps :
    (NonIso(ep) /\ InTx(ep) /\ ~in_state[ep].txqueued) => InSlices(ep)

\* Five bytes were written in slices of two, two and one.
C24_Witness ==
  /\ NonIso(1) /\ InTx(1) /\ ~in_state[1].txqueued
  /\ trace[1].written = Stream(5) /\ trace[1].tx_pkts = <<2, 2, 1>>
  /\ trace[1].in_cb = 1 /\ in_state[1].txcnt = 5

\* C22: when the handler has served a receive event whose register value
\* carries SETUP, the setup callback was invoked and the OUT callback was
\* not; the event is consumed (CTR_RX is clear, so it is served once); the
\* destination buffer and queue and the OUT transfer state (rxcnt, rxsize,
\* rxpkts, rxbuf) are what they were, and the OUT status is what it was (the
\* endpoint is not re-validated).
C22_SetupEvent ==
  (last.op = "ctr" /\ Has(last.pre, EPR_CTR_RX) /\ Has(last.pre, EPR_SETUP)) =>
    /\ <<"setup", last.ep>> \in cb
    /\ <<"out", last.ep>> \notin cb
    /\ ~Has(EPR[last.ep], EPR_CTR_RX)
    /\ rxmem[last.ep] = last.rxm
    /\ iqueue[last.ep] = last.iq
    /\ out_state[last.ep] = last.osp
    /\ StatRx(EPR[last.ep]) = StatRx(last.pre)

\* A SETUP event was served after an OUT transaction of three bytes had
\* received two into its buffer.
C22_Witness ==
  /\ last.op = "ctr" /\ Has(last.pre, EPR_CTR_RX) /\ Has(last.pre, EPR_SETUP)
  /\ cb = {<<"setup", 0>>}
  /\ last.osp.rxcnt = 2 /\ last.osp.rxsize = 1 /\ last.osp.rxpkts = 0
  /\ Len(last.rxm) > 0 /\ rxmem[0] = last.rxm
  /\ out_state[0] = last.osp

\* C12 as stated: the byte count given to a packet transfer routine is at
\* most the maximum packet size of the direction, in prepare-transmit, when
\* the handler arms the next packet and when the handler reads a packet.
C12_CountWithinMaxPacket ==
  /\ last.op = "prepare_transmit" => last.n <= epc[last.ep].in_maxsize
  /\ (last.op = "ctr" /\ last.tx.hit /\ last.tx.rearm) =>
       last.tx.wn <= epc[last.ep].in_maxsize
  /\ (last.op = "ctr" /\ last.rx.hit /\ ~last.rx.setup) =>
       last.rx.n <= epc[last.ep].out_maxsize

-----------------------------------------------------------------------------
(* SpecCfg: configuration, without traffic: endpoints are configured,      *)
(* stalled, queried and disabled, the host assigns an address and resets   *)
(* the bus.                                                                *)

NextCfg ==
  \/ \E ep \in Eps \ {0}, cfg \in EpConfigs : InitEndpoint(ep, cfg)
  \/ DisableEndpoints
  \/ \E ep \in Eps : StallOut(ep)
  \/ \E ep \in Eps : StallIn(ep)
  \/ \E ep \in Eps : GetStatusOut(ep)
  \/ \E ep \in Eps : GetStatusIn(ep)
  \/ \E address \in Addresses : SetAddress(address)
  \/ \E flag \in {"RESET"} : HwFlag(flag)
  \/ IsrEnter

SpecCfg == InitIo /\ [][NextCfg]_vars

\* C13: after disable-endpoints the allocator cursor is the reserved
\* offset, the register of every endpoint but endpoint 0 has both statuses
\* disabled and its type, kind, address and toggle bits clear, and the
\* register of endpoint 0 is what it was.
C13_DisableEndpoints ==
  last.op = "disable_endpoints" =>
    /\ pmnext = PM_RESERVED
    /\ \A e \in Eps \ {0} :
         /\ StatTx(EPR[e]) = EPR_STAT_TX_DIS
         /\ StatRx(EPR[e]) = EPR_STAT_RX_DIS
         /\ BitAnd(EPR[e], Not16(EPR_CTR_MASK + EPR_SETUP)) = 0
    /\ EPR[0] = last.pre

\* Endpoints were disabled with the cursor past the regions of endpoint 0
\* and endpoint 0 stalled for OUT.
C13_Witness ==
  /\ last.op = "disable_endpoints"
  /\ pm_hist = <<>>
  /\ pmnext = 64
  /\ StatRx(EPR[0]) = EPR_STAT_RX_STALL
  /\ EPR[1] = 0
  /\ btable[1].RXADDR0 > 192

\* C14: the assertion of the allocator has failed exactly when the cursor
\* is past the capacity of the packet memory, the cursor being the reserved
\* offset plus the sizes requested, each rounded up to even; so the cursor is
\* at most the capacity while no assertion has failed.
C14_OverflowAsserts ==
  /\ fatal <=> (PM_RESERVED + SumRounded(pm_hist, Len(pm_hist))
                  > STM32_USB_PMA_SIZE)
  /\ ~fatal => pmnext <= STM32_USB_PMA_SIZE

\* Three allocations filled the packet memory to its last byte without a
\* failure and the fourth failed.
C14_Witness ==
  /\ fatal
  /\ Len(pm_hist) = 4
  /\ pm_hist[4].ret = STM32_USB_PMA_SIZE
  /\ pmnext > STM32_USB_PMA_SIZE

\* C15: init-endpoint fails its assertion when the endpoint is isochronous
\* and has both callbacks, and in no other case (the packet memory being
\* large enough for the regions).
C15_IsoBothDirectionsAsserts ==
  last.op = "init_endpoint" =>
    LET epcp == epc[last.ep]
    IN fatal <=> \/ /\ epcp.ep_mode = USB_EP_MODE_TYPE_ISOC
                    /\ epcp.in_cb
                    /\ epcp.out_cb
                 \/ pmnext > STM32_USB_PMA_SIZE

\* An isochronous endpoint with both callbacks was configured.
C15_Witness ==
  /\ last.op = "init_endpoint"
  /\ epc[1].ep_mode = USB_EP_MODE_TYPE_ISOC
  /\ epc[1].in_cb /\ epc[1].out_cb
  /\ fatal

\* The status field of a direction: bits 4-5 for IN, bits 12-13 for OUT.
StatusField(epr, shift) == (epr \div shift) % 4

StatusName(field) ==
  CASE field = 0 -> "EP_STATUS_DISABLED"
    [] field = 1 -> "EP_STATUS_STALLED"
    [] OTHER -> "EP_STATUS_ACTIVE"

\* C16: get-status-in and get-status-out return DISABLED when the status
\* field of their direction is disabled, STALLED when it is stall and ACTIVE
\* when it is NAK or valid.
C16_GetStatus ==
  /\ last.op = "get_status_in" =>
       last.ret = StatusName(StatusField(last.pre, 16))
  /\ last.op = "get_status_out" =>
       last.ret = StatusName(StatusField(last.pre, 4096))

\* get-status-in on an endpoint valid for IN and disabled for OUT.
C16_Witness ==
  /\ last.op = "get_status_in"
  /\ StatTx(last.pre) = EPR_STAT_TX_VALID
  /\ StatRx(last.pre) = EPR_STAT_RX_DIS
  /\ last.ret = "EP_STATUS_ACTIVE"

\* The handler has just run the reset procedure.
ResetDone == last.op = "isr" /\ "RESET" \in last.istr

\* C19: after the reset procedure the cursor is 192, endpoint 0 has the
\* control configuration, its transmit region at 64 and its receive region
\* at 128, and the address register holds address 0 and the enable bit.
C19_ResetState ==
  ResetDone =>
    /\ pmnext = 192
    /\ epc[0] = ep0config
    /\ btable[0].TXADDR0 = 64
    /\ btable[0].RXADDR0 = 128
    /\ DADDR = 128
    /\ ~fatal

\* The bus was reset when an address was assigned and an endpoint was
\* configured.
C19_Witness ==
  /\ ResetDone
  /\ pmnext = 192
  /\ btable[1].TXADDR0 >= 192
  /\ epc[1] = NULL
  /\ <<"reset", 0>> \in cb

\* C20: after init-endpoint a direction of an endpoint that is not
\* isochronous is NAK when it has a callback and disabled when it has none;
\* a direction of an isochronous endpoint that has a callback is valid and
\* the address and the count of its buffer 1 are those of its buffer 0.
C20_InitialStatus ==
  (last.op = "init_endpoint" /\ ~fatal) =>
    LET epcp == epc[last.ep]
        epr == EPR[last.ep]
        d == btable[last.ep]
    IN IF epcp.ep_mode = USB_EP_MODE_TYPE_ISOC
         THEN /\ epcp.in_cb =>
                   /\ StatTx(epr) = EPR_STAT_TX_VALID
                   /\ TXADDR1(d) = d.TXADDR0
                   /\ TXCOUNT1(d) = d.TXCOUNT0
              /\ epcp.out_cb =>
                   /\ StatRx(epr) = EPR_STAT_RX_VALID
                   /\ RXADDR1(d) = d.RXADDR0
                   /\ RXCOUNT1(d) = d.RXCOUNT0
         ELSE /\ StatTx(epr) = IF epcp.in_cb THEN EPR_STAT_TX_NAK
                               ELSE EPR_STAT_TX_DIS
              /\ StatRx(epr) = IF epcp.out_cb THEN EPR_STAT_RX_NAK
                               ELSE EPR_STAT_RX_DIS

\* An isochronous OUT endpoint was configured after the endpoints had been
\* disabled.
C20_Witness ==
  /\ last.op = "init_endpoint" /\ ~fatal
  /\ epc[1].ep_mode = USB_EP_MODE_TYPE_ISOC
  /\ epc[1].out_cb
  /\ StatRx(EPR[1]) = EPR_STAT_RX_VALID
  /\ btable[1].RXADDR0 = 64

\* C17: on a receive event that is not a SETUP the handler invokes the OUT
\* callback when the packet received is shorter than the maximum packet size
\* or the packet count, one less than before, is zero; otherwise it invokes
\* no callback and sets the OUT status to valid.
C17_OutCompletion ==
  (last.op = "ctr" /\ last.rx.hit /\ ~last.rx.setup) =>
    LET ep == last.ep
        short == trace[ep].hw_rx_size < epc[ep].out_maxsize
        zero == out_state[ep].rxpkts = 0
    IN IF short \/ zero
         THEN <<"out", ep>> \in cb
         ELSE /\ cb = {}
              /\ StatRx(EPR[ep]) = EPR_STAT_RX_VALID

\* The first of the three packets of a transaction was received whole: no
\* callback, the endpoint is valid again.
C17_Witness ==
  /\ last.op = "ctr" /\ last.rx.hit /\ ~last.rx.setup
  /\ NonIso(1)
  /\ epc[1].out_maxsize = 2
  /\ trace[1].rx_cap = 5
  /\ trace[1].rx_pkts = <<2>>
  /\ out_state[1].rxpkts = 2
  /\ cb = {}
  /\ StatRx(EPR[1]) = EPR_STAT_RX_VALID

-----------------------------------------------------------------------------
(* SpecIsr: events of two endpoints, SETUP packets on endpoint 0 and OUT   *)
(* packets on endpoint 1, which the peripheral raises before and while the *)
(* handler runs.  Once entered, the handler goes on running.               *)

IsrConfigs == {c \in OutConfigs : c.out_maxsize = MaxPkt}

NextIsr ==
  \/ \E cfg \in IsrConfigs : InitEndpoint(1, cfg)
  \/ PrepareReceive(1, MaxPkt + 1, FALSE)
  \/ StartOut(1)
  \/ HwOutPacket(1, MaxPkt)
  \/ HwSetup(0, Stream(8))
  \/ IsrEnter
  \/ IsrCtr

\* The loop is at its head with a completion flag seen in ISTR: the condition
\* under which IsrCtr can take a step.
IsrCtrEnabled == ~fatal /\ isr.pc = "ctr" /\ isr.ctr

\* The handler runs to its end once entered: weak fairness of the loop's
\* iteration, WF_vars(IsrCtr), written with IsrCtrEnabled for
\* ENABLED <<IsrCtr>>_vars.
IsrCtrFair == []<>(~IsrCtrEnabled) \/ []<><<IsrCtr>>_vars

SpecIsr == InitIo /\ [][NextIsr]_vars /\ IsrCtrFair

\* No endpoint register shows a completion.
NoCompletionPending ==
  \A e \in Eps : ~Has(EPR[e], EPR_CTR_TX) /\ ~Has(EPR[e], EPR_CTR_RX)

\* The handler has just returned.
HandlerReturned == last.op \in {"isr", "ctr"} /\ isr.pc = "idle"

\* C18: when the handler returns no endpoint register shows a completion,
\* so the completions pending when it was entered and those raised while it
\* ran have been serviced; and the handler, once in its endpoint loop,
\* returns, the peripheral raising finitely many completions.
C18_HandlerDrains ==
  /\ [](HandlerReturned => NoCompletionPending)
  /\ (isr.pc = "ctr") ~> (isr.pc = "idle")

\* The handler returned after it serviced a SETUP of endpoint 0 and a packet
\* of endpoint 1 in one run.
C18_Witness ==
  /\ HandlerReturned
  /\ last.op = "ctr"
  /\ last.served = 2
  /\ last.ep = 1
  /\ last.rx.hit
  /\ trace[0].hw_rx_count > 0
  /\ NoCompletionPending

-----------------------------------------------------------------------------
(* SpecBus: the conditions of the bus (reset, suspend, wakeup, start of    *)
(* frame) and the handler's answer to them, for both settings of           *)
(* STM32_USB_LOW_POWER_ON_SUSPEND and with or without a SOF callback.      *)

BusFlags == {"RESET", "SUSP", "WKUP", "SOF"}

NextBus ==
  \/ \E flag \in BusFlags : HwFlag(flag)
  \/ \E address \in Addresses : SetAddress(address)
  \/ IsrEnter

SpecBus == Init /\ [][NextBus]_vars

\* C21: when the handler has served a wakeup flag, the wakeup callback was
\* invoked exactly when the line state showed a resume (RXDP clear); on a
\* resume suspend mode (FSUSP) is clear afterwards; on a spurious wakeup
\* (RXDP set) suspend mode is as the wakeup branch found it, so it stays set
\* when it was set; in both cases the wakeup flag is cleared.
C21_Wakeup ==
  (last.op = "isr" /\ "WKUP" \in last.istr) =>
    /\ (<<"wakeup", 0>> \in cb) <=> ~last.rxdp
    /\ ~last.rxdp => "FSUSP" \notin CNTR
    /\ last.rxdp => ("FSUSP" \in CNTR <=> "FSUSP" \in last.cntr_wk)
    /\ "WKUP" \notin ISTR

\* A spurious wakeup was served with suspend mode set, and it stays set.
C21_Witness ==
  /\ last.op = "isr" /\ "WKUP" \in last.istr /\ last.rxdp
  /\ "FSUSP" \in last.cntr_wk /\ "FSUSP" \in CNTR
  /\ <<"wakeup", 0>> \notin cb /\ "WKUP" \notin ISTR

-----------------------------------------------------------------------------
(* SpecQueue: usb_packet_read_to_queue and usb_packet_write_from_queue     *)
(* statement by statement, with a thread that looks at the queue whenever  *)
(* the system is not locked.  xf holds the routine's position and locals,  *)
(* the lock state, and what the thread saw.                                *)

\* The order of the statements as a bug might have it: the critical section
\* before the last byte of an odd count.
QueueFlowEarlyUpdate(pc, nhw) ==
  CASE pc = "copy" -> IF nhw - 1 > 0 THEN "copy" ELSE "lock"
    [] pc = "lock" -> "update"
    [] pc = "update" -> "wake"
    [] pc = "wake" -> "unlock"
    [] pc = "unlock" -> "odd"
    [] OTHER -> "done"

\* The statement that follows pc in both routines: the halfword loop while
\* nhw iterations remain, the last byte of an odd count, the lock, the
\* counter, the waiting threads, the unlock.
QueueFlow(pc, nhw) ==
  CASE pc = "copy" -> IF nhw - 1 > 0 THEN "copy" ELSE "odd"
    [] pc = "odd" -> "lock"
    [] pc = "lock" -> "update"
    [] pc = "update" -> "wake"
    [] pc = "wake" -> "unlock"
    [] OTHER -> "done"

\* The routines are entered from the handler with the system unlocked;
\* usb_packet_write_from_queue also from usb_lld_prepare_transmit, which the
\* caller may run with the system locked.
InitQueue ==
  /\ pmnext = usb_pm_reset
  /\ fatal = FALSE
  /\ epc = [e \in Eps |-> NULL]
  /\ EPR = [e \in Eps |-> 0]
  /\ btable = [e \in Eps |-> IF e = 0 THEN XferDescriptor ELSE NoDescriptor]
  /\ in_state = [e \in Eps |-> NoInState]
  /\ out_state = [e \in Eps |-> NoOutState]
  /\ transmitting = {}
  /\ receiving = {}
  /\ usbcfg = NoConfig
  /\ ISTR = {}
  /\ CNTR = {}
  /\ DADDR = 0
  /\ FNR_RXDP = FALSE
  /\ isr = IsrIdle
  /\ cb = {}
  /\ trace = [e \in Eps |-> NoTrace]
  /\ last = [op |-> "none"]
  /\ pm_hist = <<>>
  /\ txmem = [e \in Eps |-> <<>>]
  /\ rxmem = [e \in Eps |-> <<>>]
  /\ \E n \in 0 .. QSize, ptr \in 0 .. QSize - 1, c0 \in {0, 1} :
       \/ /\ pma = [i \in 0 .. PmaHalfwords - 1 |-> 1 + 256 * 171]
          /\ iqueue = [e \in Eps |->
                         IF e = 0
                           THEN [EmptyInputQueue(0) EXCEPT
                                   !.q_wrptr = ptr, !.q_counter = c0,
                                   !.q_waiting = TRUE]
                           ELSE EmptyInputQueue(0)]
          /\ oqueue = [e \in Eps |-> EmptyOutputQueue(0)]
          /\ xf = [routine |-> "read_to_queue",
                   pc |-> IF n \div 2 > 0 THEN "copy" ELSE "odd",
                   n |-> n, nhw |-> n \div 2,
                   pmap |-> USB_ADDR2PTR(XferDescriptor.RXADDR0),
                   locked |-> FALSE, sts |-> FALSE, moved |-> 0,
                   sections |-> 0, seen |-> <<>>,
                   q0 |-> iqueue[0], pm0 |-> pma]
       \/ \E qb \in [1 .. QSize -> Bytes], held \in BOOLEAN :
            /\ pma = [i \in 0 .. PmaHalfwords - 1 |-> 0]
            /\ iqueue = [e \in Eps |-> EmptyInputQueue(0)]
            /\ oqueue = [e \in Eps |->
                           IF e = 0
                             THEN [q_buf |-> qb, q_rdptr |-> ptr,
                                   q_counter |-> c0, q_waiting |-> TRUE]
                             ELSE EmptyOutputQueue(0)]
            /\ xf = [routine |-> "write_from_queue",
                     pc |-> IF n \div 2 > 0 THEN "copy" ELSE "odd",
                     n |-> n, nhw |-> n \div 2,
                     pmap |-> USB_ADDR2PTR(XferDescriptor.TXADDR0),
                     locked |-> held, sts |-> FALSE, moved |-> 0,
                     sections |-> 0, seen |-> <<>>,
                     q0 |-> oqueue[0], pm0 |-> pma]

\* One statement of usb_packet_read_to_queue.
StepReadToQueue ==
  /\ xf.routine = "read_to_queue"
  /\ xf.pc # "done"
  /\ LET q == iqueue[0]
         pc1 == QueueFlow(xf.pc, xf.nhw)
     IN CASE xf.pc = "copy" ->
               LET r == ReadToQueueLoop(pma, xf.pmap, q, 1)
               IN /\ iqueue' = [iqueue EXCEPT ![0] = r.iqp]
                  /\ xf' = [xf EXCEPT !.pc = pc1, !.nhw = @ - 1,
                                      !.pmap = r.pmap, !.moved = @ + 2]
          [] xf.pc = "odd" ->
               IF xf.n % 2 # 0
                 THEN /\ iqueue' = [iqueue EXCEPT ![0] =
                                      QueuePut(q, U8(pma[xf.pmap]))]
                      /\ xf' = [xf EXCEPT !.pc = pc1, !.moved = @ + 1]
                 ELSE /\ iqueue' = iqueue
                      /\ xf' = [xf EXCEPT !.pc = pc1]
          [] xf.pc = "lock" ->
               /\ iqueue' = iqueue
               /\ xf' = [xf EXCEPT !.pc = pc1, !.locked = TRUE,
                                   !.sections = @ + 1]
          [] xf.pc = "update" ->
               /\ iqueue' = [iqueue EXCEPT ![0].q_counter = @ + xf.n]
               /\ xf' = [xf EXCEPT !.pc = pc1]
          [] xf.pc = "wake" ->
               /\ iqueue' = [iqueue EXCEPT ![0].q_waiting = FALSE]
               /\ xf' = [xf EXCEPT !.pc = pc1]
          [] OTHER ->
               /\ iqueue' = iqueue
               /\ xf' = [xf EXCEPT !.pc = pc1, !.locked = FALSE]
  /\ UNCHANGED <<pma, txmem, rxmem, oqueue>>
  /\ UNCHANGED xferFrame

\* One statement of usb_packet_write_from_queue.
StepWriteFromQueue ==
  /\ xf.routine = "write_from_queue"
  /\ xf.pc # "done"
  /\ LET q == oqueue[0]
         pc1 == QueueFlow(xf.pc, xf.nhw)
     IN CASE xf.pc = "copy" ->
               LET r == WriteFromQueueLoop(pma, xf.pmap, q, 1)
               IN /\ oqueue' = [oqueue EXCEPT ![0] = r.oqp]
                  /\ pma' = r.pm
                  /\ xf' = [xf EXCEPT !.pc = pc1, !.nhw = @ - 1,
                                      !.pmap = r.pmap, !.moved = @ + 2]
          [] xf.pc = "odd" ->
               IF xf.n % 2 # 0
                 THEN /\ oqueue' = [oqueue EXCEPT ![0] = QueueAdvance(q)]
                      /\ pma' = [pma EXCEPT ![xf.pmap] = q.q_buf[q.q_rdptr + 1]]
                      /\ xf' = [xf EXCEPT !.pc = pc1, !.moved = @ + 1]
                 ELSE /\ oqueue' = oqueue
                      /\ pma' = pma
                      /\ xf' = [xf EXCEPT !.pc = pc1]
          [] xf.pc = "lock" ->
               /\ oqueue' = oqueue
               /\ pma' = pma
               /\ xf' = [xf EXCEPT !.pc = pc1, !.sts = xf.locked,
                                   !.locked = TRUE, !.sections = @ + 1]
          [] xf.pc = "update" ->
               /\ oqueue' = [oqueue EXCEPT ![0].q_counter = @ + xf.n]
               /\ pma' = pma
               /\ xf' = [xf EXCEPT !.pc = pc1]
          [] xf.pc = "wake" ->
               /\ oqueue' = [oqueue EXCEPT ![0].q_waiting = FALSE]
               /\ pma' = pma
               /\ xf' = [xf EXCEPT !.pc = pc1]
          [] OTHER ->
               /\ oqueue' = oqueue
               /\ pma' = pma
               /\ xf' = [xf EXCEPT !.pc = pc1, !.locked = xf.sts]
  /\ UNCHANGED <<txmem, rxmem, iqueue>>
  /\ UNCHANGED xferFrame

\* A thread reads the queue's counter and sees how much of the packet is
\* transferred; it runs only while the system is not locked.
ObserveQueue ==
  /\ ~xf.locked
  /\ LET q == IF xf.routine = "read_to_queue" THEN iqueue[0] ELSE oqueue[0]
     IN xf' = [xf EXCEPT !.seen = <<[q_counter |-> q.q_counter,
                                     q_waiting |-> q.q_waiting,
                                     moved |-> xf.moved]>>]
  /\ xf'.seen # xf.seen
  /\ UNCHANGED <<pma, txmem, rxmem, oqueue, iqueue>>
  /\ UNCHANGED xferFrame

NextQueue ==
  \/ StepReadToQueue
  \/ StepWriteFromQueue
  \/ ObserveQueue

SpecQueue == InitQueue /\ [][NextQueue]_vars

\* The queue the routine of SpecQueue works on.
TheQueue == IF xf.routine = "read_to_queue" THEN iqueue[0] ELSE oqueue[0]

\* C23: in both queue routines the counter is either what it was or that
\* plus n; the system is locked by the routine once, and only after all n
\* bytes are transferred; the counter is updated and the waiting threads are
\* released inside that section, the threads not before the counter; a
\* thread that saw the updated counter or found itself released saw all n
\* bytes transferred; the routine's next statement can always be taken (it
\* never waits), and at its end the queue and the packet memory are those of
\* the routine taken as a whole and the lock state is what it was at entry.
C23_QueueUpdateAtomic ==
  /\ TheQueue.q_counter \in {xf.q0.q_counter, xf.q0.q_counter + xf.n}
  /\ xf.sections <= 1
  /\ xf.pc \in {"update", "wake", "unlock"} => xf.locked /\ xf.moved = xf.n
  /\ xf.sections > 0 => xf.moved = xf.n
  /\ xf.pc \in {"wake", "unlock", "done"} =>
       TheQueue.q_counter = xf.q0.q_counter + xf.n
  /\ ~TheQueue.q_waiting =>
       xf.pc \in {"unlock", "done"}
         /\ TheQueue.q_counter = xf.q0.q_counter + xf.n
  /\ \A i \in 1 .. Len(xf.seen) :
       (xf.seen[i].q_counter # xf.q0.q_counter \/ ~xf.seen[i].q_waiting) =>
         /\ xf.seen[i].moved = xf.n
         /\ xf.seen[i].q_counter = xf.q0.q_counter + xf.n
         /\ ~xf.seen[i].q_waiting
  /\ xf.pc # "done" =>
       IF xf.routine = "read_to_queue" THEN ENABLED StepReadToQueue
       ELSE ENABLED StepWriteFromQueue
  /\ xf.pc = "done" =>
       /\ xf.locked = (xf.routine = "write_from_queue" /\ xf.sts)
       /\ xf.moved = xf.n
       /\ IF xf.routine = "read_to_queue"
            THEN iqueue[0] = usb_packet_read_to_queue(xf.pm0, btable[0],
                                                      xf.q0, xf.n)
            ELSE LET r == usb_packet_write_from_queue(xf.pm0, btable[0],
                                                      xf.q0, xf.n)
                 IN oqueue[0] = r.oqp /\ pma = r.pm

\* A thread looked at the queue between the second and the third byte of a
\* packet of three and saw the counter not updated; the routine has ended
\* with the counter three higher.
C23_Witness ==
  /\ xf.pc = "done" /\ xf.n = 3 /\ xf.sections = 1
  /\ Len(xf.seen) = 1 /\ xf.seen[1].moved = 2
  /\ xf.seen[1].q_counter = xf.q0.q_counter /\ xf.seen[1].q_waiting
  /\ TheQueue.q_counter = xf.q0.q_counter + 3 /\ ~TheQueue.q_waiting

-----------------------------------------------------------------------------
(* SpecRace: usb_lld_clear_in called from a thread, register access by     *)
(* register access, while IN transactions of two packets run on endpoint   *)
(* 1.  The routine takes no lock, so the handler may run between its test  *)
(* of the status and its write.  xf holds the thread's position in the     *)
(* routine; the thread does nothing else until the routine has returned.   *)

\* if ((STM32_USB->EPR[ep] & EPR_STAT_TX_MASK) != EPR_STAT_TX_VALID): the
\* routine returns when the status is valid.
ClearInTest(ep) ==
  /\ Thread
  /\ xf = XfOff
  /\ epc[ep] # NULL
  /\ xf' = IF StatTx(EPR[ep]) # EPR_STAT_TX_VALID
             THEN [pc |-> "clear_in_set", ep |-> ep, seen |-> EPR[ep]]
             ELSE XfOff
  /\ last' = Did("clear_in_test", ep, EPR[ep])
  /\ cb' = {}
  /\ UNCHANGED <<drvVars, memVars, xferVars, usbcfg, busVars, isr, trace,
                 pm_hist>>

\* EPR_SET_STAT_TX(ep, EPR_STAT_TX_NAK), which reads the register again.
ClearInSet ==
  /\ Thread
  /\ xf # XfOff
  /\ xf.pc = "clear_in_set"
  /\ EPR' = [EPR EXCEPT ![xf.ep] = EPR_SET_STAT_TX(@, EPR_STAT_TX_NAK)]
  /\ xf' = XfOff
  /\ last' = [op |-> "clear_in_set", ep |-> xf.ep, pre |-> EPR[xf.ep],
              seen |-> xf.seen]
  /\ cb' = {}
  /\ UNCHANGED <<pmnext, fatal, epc, btable, memVars, xferVars, usbcfg,
                 busVars, isr, trace, pm_hist>>

RaceConfigs == {c \in InConfigs : c.ep_mode # USB_EP_MODE_TYPE_ISOC}

NextRace ==
  \/ \E cfg \in RaceConfigs : InitEndpoint(1, cfg)
  \/ xf = XfOff /\ \E size \in 1 .. MaxPkt + 1 : PrepareTransmit(1, size, FALSE)
  \/ xf = XfOff /\ StartIn(1)
  \/ HwInPacket(1)
  \/ IsrEnter
  \/ IsrCtr
  \/ ClearInTest(1)
  \/ ClearInSet

SpecRace == InitIo /\ [][NextRace]_vars

\* C25 as stated: when clear-in writes the register of an endpoint whose IN
\* status is valid at that moment (the handler has armed the next packet of
\* a transaction since clear-in tested the status), the status is valid
\* afterwards.
C25_ClearInKeepsValid ==
  (last.op = "clear_in_set" /\ StatTx(last.pre) = EPR_STAT_TX_VALID) =>
    StatTx(EPR[last.ep]) = EPR_STAT_TX_VALID

-----------------------------------------------------------------------------
(* The regions of the packet memory.                                       *)

\* The regions the enabled endpoints hold: for each direction that has a
\* callback, the bytes allocated at the address its descriptor names.
Regions ==
  {r \in [ep : Eps, dir : {"tx", "rx"}] : epc[r.ep] # NULL
     /\ (IF r.dir = "tx" THEN epc[r.ep].in_maxsize
         ELSE epc[r.ep].out_maxsize) > 0}

RegionStart(r) ==
  IF r.dir = "tx" THEN btable[r.ep].TXADDR0 ELSE btable[r.ep].RXADDR0

RegionEnd(r) ==
  RegionStart(r) + RoundEven(IF r.dir = "tx" THEN epc[r.ep].in_maxsize
                             ELSE epc[r.ep].out_maxsize)

\* C26 as stated: while no assertion has failed, the regions of the enabled
\* endpoints, endpoint 0 included, are pairwise disjoint and lie between
\* the reserved offset and the capacity.
C26_RegionsDisjoint ==
  ~fatal =>
    /\ \A r \in Regions :
         RegionStart(r) >= PM_RESERVED /\ RegionEnd(r) <= STM32_USB_PMA_SIZE
    /\ \A r1, r2 \in Regions :
         r1 # r2 =>
           RegionEnd(r1) <= RegionStart(r2) \/ RegionEnd(r2) <= RegionStart(r1)

-----------------------------------------------------------------------------
(* The counters of an OUT transaction.                                     *)

\* C27 as stated: in an OUT transaction prepared for S bytes in which every
\* packet received so far is at most the maximum OUT packet size, the bytes
\* copied to the destination are at most S, rxsize has not gone below zero
\* (a negative rxsize stands for the size_t value that wrapped), and
\* rxcnt + rxsize = S.
C27_OutWithinRequest ==
  \A ep \in Eps :
    (Configured(ep) /\ InRx(ep)
       /\ \A i \in 1 .. Len(trace[ep].rx_pkts) :
            trace[ep].rx_pkts[i] <= epc[ep].out_maxsize) =>
      /\ out_state[ep].rxcnt <= trace[ep].rx_cap
      /\ ~out_state[ep].rxqueued => Len(rxmem[ep]) <= trace[ep].rx_cap
      /\ out_state[ep].rxsize >= 0
      /\ out_state[ep].rxcnt + out_state[ep].rxsize = trace[ep].rx_cap

=============================================================================
